---- MODULE Spec2Model ----
(***************************************************************************)
(* Cache (app/page.tsx): the session poller of the Cache component, its    *)
(* event ticker, the forwarded-set gate in front of pushContribution, and  *)
(* the local-storage entries they are loaded from and saved to.            *)
(*                                                                         *)
(* Time is a counter: every response of the success-events route and every *)
(* demo animation step reads a strictly larger clock value, so a timestamp *)
(* is the clock value at which the route (or the animation) ran.           *)
(* A dedup key `${sessionId}-${type}-${x}` is the tuple <<sessionId, type, *)
(* x>>; session ids are taken not to contain a "-<type>-" infix.           *)
(***************************************************************************)
EXTENDS Integers, Sequences, FiniteSets, TLC

\* ---- bounds of the model ------------------------------------------------
MaxClock == 3
MaxLoads == 1
MaxInFlight == 1
MaxOverlap == 2
MaxClockOverlap == 3
MaxClockReset == 4
MaxLoadsReset == 1
MaxClockWide == 6
MaxClockDemo == 9
MaxLoadsDemo == 2
MaxClockSince == 4
MaxManual == 1
MaxClockPush == 2
MaxLoadsPush == 2
MaxIds == 5
MaxIdsContrib == 66
MaxPosts == 2
MaxPieces == 1
MaxFragments == 2
MaxRouteClock == 45000
MaxClockContrib == 2

\* ---- program constants --------------------------------------------------
TickerCap == 50
PollSessions == 5
PushButtonRows == 20
DemoStart == 3
ContributionsCap == 20
ContributionRows == 5
DetailsLen == 50
CommitMsgLen == 40
MaxTexts == 2

Min(a, b) == IF a < b THEN a ELSE b

\* ---- events -------------------------------------------------------------
\* What detectSuccessEvents finds in a session's recent window: a sequence
\* of [type, details, confidence], per-fragment events first.
CK == [type |-> "checkpoint", details |-> "magic", confidence |-> 80]
GC == [type |-> "git_commit", details |-> "[a1b2c3d] fix bug", confidence |-> 90]
TP == [type |-> "tests_passed", details |-> "14 tests passed", confidence |-> 85]

Windows == {<< >>, <<CK, GC>>, <<GC, TP>>}
FailKinds == {"throw", "timeout", "not_ok", "malformed"}

LiveSessions == {"s1", "s2", "s3", "s4", "s5", "s6"}
SessionLists == {<< >>, <<"s1">>, <<"s1", "s2">>}

DemoSessions == <<"demo-1a2b3c", "demo-4d5e6f", "demo-7g8h9i", "demo-auth01">>

SeqRange(s) == {s[i] : i \in DOMAIN s}

AllSessionIds == LiveSessions \cup SeqRange(DemoSessions)

\* e.sessionId?.startsWith("demo-")
IsDemoId(sid) == sid \in SeqRange(DemoSessions)

Ev(t, ts, d, c, sid) ==
  [type |-> t, timestamp |-> ts, details |-> d, confidence |-> c, sessionId |-> sid]

\* getMockData().events; new Date(now - k) is kept as an order-preserving
\* offset from the clock value at which the page was loaded.
MockEvents(now) ==
  << Ev("git_commit", now, "[main a1b2c3d] Auto-push contributions feed", 95, "demo-1a2b3c"),
     Ev("deploy_success", now - 1, "https://cache-demo.vercel.app deployed", 98, "demo-1a2b3c"),
     Ev("build_success", now - 2, "Compiled successfully in 2.1s", 90, "demo-1a2b3c"),
     Ev("user_confirmation", now - 3, "magic - checkpoint confirmed", 100, "demo-4d5e6f"),
     Ev("git_commit", now - 4, "[main 9f8e7d6] Mock data mode for demos", 95, "demo-1a2b3c"),
     Ev("tests_passed", now - 5, "12 tests passed in 3.4s", 92, "demo-7g8h9i"),
     Ev("git_commit", now - 6, "[main 5c4b3a2] Weave push endpoint", 95, "demo-4d5e6f"),
     Ev("git_commit", now - 7, "[main 8d7c6b5] OAuth token refresh flow", 95, "demo-auth01"),
     Ev("tests_passed", now - 8, "8 tests passed - auth flow complete", 92, "demo-auth01") >>

NumMock == Len(MockEvents(0))

VARIABLES
  phase,                 \* "unloaded" (page not yet mounted) or "running"
  url,                   \* "live" or "demo" (?demo=true)
  loads,                 \* page loads so far
  clock,                 \* last clock value read
  lsTicker,              \* localStorage cache_ticker
  lsPushed,              \* localStorage cache_pushed_events
  lsAnchors,             \* localStorage autofork_anchors / autofork_events
  eventTicker,
  demoEventIndex,
  claudestormConnected,
  claudestormSessions,
  checkPc,               \* checkClaudestorm: "idle", "health", "sessions"
  pollActive,            \* the poll effect has its interval installed
  closureTicker,         \* eventTicker as captured by the poll effect
  cycles,                \* checkAllSessions calls awaiting their fetches
  sessionTimestampsRef,
  pushedEventsRef,
  pushedEventsLoaded,
  pushCalls,             \* history: the automatic calls of pushContribution
                         \* and the last manual one
  lastGot,               \* history: the responses of the last finished cycle
  incorporated,          \* history: per session, the newest timestamp received
                         \* since the page was loaded or the cache reset
  requestSince,          \* history: since_timestamp of the last request sent
                         \* (0 when the URL carried none)
  lsEvents,              \* localStorage autofork_events
  fetching,              \* pushContribution calls awaiting the session fetches
  posting,               \* pushContribution calls awaiting push-to-weave
  contributions,
  anchors,
  eventLog,
  notification,          \* "none" stands for null
  nextId,                \* generateId(): the next fresh id
  posts,                 \* push-to-weave: the POST requests of the route
  routeNow,              \* the server's time in ms
  userMessages,          \* detectSuccessEvents: the user fragments given
  assistantMessages,     \* the agent's messages given
  toolResults,           \* the tool results given
  detected,              \* detectSuccessEvents: the events returned
  detectPc               \* "input" before the call, "done" after

pollHist == <<incorporated, requestSince>>
pushVars == <<fetching, posting, contributions, anchors, eventLog, notification, nextId>>
detectVars == <<userMessages, assistantMessages, toolResults, detected, detectPc>>
serverVars == <<posts, routeNow, detectVars>>

vars == <<phase, url, loads, clock, lsTicker, lsPushed, lsAnchors, eventTicker,
          demoEventIndex, claudestormConnected, claudestormSessions, checkPc,
          pollActive, closureTicker, cycles, sessionTimestampsRef,
          pushedEventsRef, pushedEventsLoaded, pushCalls, lastGot, pollHist,
          lsEvents, pushVars, serverVars>>

\* a request slot that no POST has used
NoPost == [kind |-> "none", start |-> 0, proc |-> "none", timer |-> "none",
           settled |-> FALSE, answers |-> << >>]

Item(st, v) == [st |-> st, v |-> v]
NoTimestamps == [s \in AllSessionIds |-> 0]

InitPage ==
  /\ phase = "unloaded"
  /\ url \in {"live", "demo"}
  /\ loads = 0
  /\ clock = 1
  /\ lsTicker = Item("absent", << >>)
  /\ lsPushed = Item("absent", {})
  /\ lsAnchors = Item("absent", << >>)
  /\ eventTicker = << >>
  /\ demoEventIndex = 0
  /\ claudestormConnected = FALSE
  /\ claudestormSessions = << >>
  /\ checkPc = "idle"
  /\ pollActive = FALSE
  /\ closureTicker = << >>
  /\ cycles = << >>
  /\ sessionTimestampsRef = NoTimestamps
  /\ pushedEventsRef = {}
  /\ pushedEventsLoaded = FALSE
  /\ pushCalls = {}
  /\ lastGot = << >>
  /\ incorporated = NoTimestamps
  /\ requestSince = 0
  /\ lsEvents = Item("absent", << >>)
  /\ fetching = {}
  /\ posting = {}
  /\ contributions = << >>
  /\ anchors = << >>
  /\ eventLog = << >>
  /\ notification = "none"
  /\ nextId = 1

\* no request has reached the routes
Init ==
  /\ InitPage
  /\ posts = [r \in 1..MaxPosts |-> NoPost]
  /\ routeNow = 0
  /\ userMessages = << >>
  /\ assistantMessages = << >>
  /\ toolResults = << >>
  /\ detected = << >>
  /\ detectPc = "done"


\* ---- checkAllSessions: keys, dedup, merge, auto-push ---------------------
IsMagicType(t) == t \in {"session_start", "checkpoint", "issue"}

\* a key that uses details for every type
getEventKey_DetailsForAll(e) == <<e.sessionId, e.type, e.details>>

\* getEventKey: timestamp for magic events, details for the others
getEventKey(e) ==
  IF IsMagicType(e.type)
  THEN <<e.sessionId, e.type, ToString(e.timestamp)>>
  ELSE <<e.sessionId, e.type, e.details>>

\* contentKey in the auto-push loop
contentKey(e) == <<e.sessionId, e.type, e.details>>

\* new Set(eventTicker.map(getEventKey))
ExistingKeys(ticker) == {getEventKey(ticker[i]) : i \in DOMAIN ticker}

\* newEvents.filter(e => !existingKeys.has(getEventKey(e)))
UniqueNew(newEvents, seen) ==
  SelectSeq(newEvents, LAMBDA e : getEventKey(e) \notin ExistingKeys(seen))

\* [...uniqueNew, ...prev].slice(0, 50)
MergeTicker(uniqueNew, prev) ==
  SubSeq(uniqueNew \o prev, 1, Min(TickerCap, Len(uniqueNew) + Len(prev)))

\* a loop that does not wait for the load
AutoPushAllowed_NoGate(loaded) == TRUE

\* if (!pushedEventsLoaded.current) return;
AutoPushAllowed(loaded) == loaded

\* an allow-list that also holds tests_passed
IsAutoPushType_WithTests(t) ==
  t \in {"git_commit", "session_start", "checkpoint", "issue", "tests_passed"}

\* the type test of the auto-push loop
IsAutoPushType(t) == t \in {"git_commit", "session_start", "checkpoint", "issue"}

\* a condition that ignores pushedEventsRef
ShouldAutoPush_NoSetCheck(event, pushed) == IsAutoPushType(event.type)

\* the condition of the auto-push loop
ShouldAutoPush(event, pushed) ==
  contentKey(event) \notin pushed /\ IsAutoPushType(event.type)

\* One call of pushContribution(event.sessionId, [event]), as recorded in
\* pushCalls: had tells whether the key was in the forwarded set when the
\* handler that made the call started on the event, sent is FALSE when
\* pushContribution returns at its first line (demoMode), and nth counts the
\* automatic calls made for the key so far (0 for a manual call).
Call(event, auto, pushed, loaded, demo, calls) ==
  [key |-> contentKey(event), type |-> event.type, auto |-> auto,
   had |-> contentKey(event) \in pushed, loaded |-> loaded, sent |-> ~demo,
   nth |-> IF auto
           THEN 1 + Cardinality({c \in calls : c.auto /\ c.key = contentKey(event)
                                                /\ c.sent = ~demo})
           ELSE 0]

RECURSIVE AutoPushLoop(_, _, _, _, _)
AutoPushLoop(events, pushed, calls, loaded, demo) ==
  IF events = << >> THEN [pushed |-> pushed, calls |-> calls, started |-> << >>]
  ELSE LET event == Head(events)
       IN IF ShouldAutoPush(event, pushed)
          THEN LET rest == AutoPushLoop(Tail(events), pushed \cup {contentKey(event)},
                                        calls \cup {Call(event, TRUE, pushed, loaded,
                                                         demo, calls)},
                                        loaded, demo)
               IN [rest EXCEPT !.started = <<event>> \o @]
          ELSE AutoPushLoop(Tail(events), pushed, calls, loaded, demo)

\* ---- the success-events route --------------------------------------------
\* a route whose filter also lets through the events stamped since_timestamp
RouteGET_AtOrAfter(items, now, since) ==
  LET events == [i \in DOMAIN items |->
                   [type |-> items[i].type, timestamp |-> now,
                    details |-> items[i].details, confidence |-> items[i].confidence]]
  IN IF since # 0 THEN SelectSeq(events, LAMBDA e : e.timestamp >= since) ELSE events

\* GET: every detected event is stamped with the route's now, then filtered
\* by since_timestamp when the poller sent one (0 stands for no parameter).
RouteGET(items, now, since) ==
  LET events == [i \in DOMAIN items |->
                   [type |-> items[i].type, timestamp |-> now,
                    details |-> items[i].details, confidence |-> items[i].confidence]]
  IN IF since # 0 THEN SelectSeq(events, LAMBDA e : e.timestamp > since) ELSE events

\* data.events.map(e => ({...e, sessionId: session.session_id, ...}))
EventsWithSession(events, sid) ==
  [i \in DOMAIN events |->
     Ev(events[i].type, events[i].timestamp, events[i].details,
        events[i].confidence, sid)]

\* claudestormSessions.slice(0, 5)
TopSessions(sessions) == SubSeq(sessions, 1, Min(PollSessions, Len(sessions)))

\* overlaps: the call starts while an earlier call awaits its requests
NewCycle(sessions, ticker) ==
  [sessions |-> sessions, snap |-> TopSessions(sessions), idx |-> 1,
   seen |-> ticker, newEvents |-> << >>, got |-> << >>,
   overlaps |-> cycles # << >>]

\* The poll effect (re-)runs: its cleanup clears the interval; when its guard
\* passes it calls checkAllSessions() and installs a new interval.
RunPollEffect(connected, sessions, ticker) ==
  IF connected /\ sessions # << >>
  THEN /\ Len(cycles) < MaxInFlight
       /\ pollActive' = TRUE
       /\ closureTicker' = ticker
       /\ cycles' = Append(cycles, NewCycle(sessions, ticker))
  ELSE /\ pollActive' = FALSE
       /\ UNCHANGED <<closureTicker, cycles>>

\* the persist effect of eventTicker
PersistTicker(ticker) == lsTicker' = Item("ok", ticker)


\* ---- pushContribution: anchors and their saved form -----------------------
\* a number that is undefined (detail.stats.total_tokens missing)
Undefined == -1

\* what the session endpoints of claudestorm answer for a session: the anchor
\* data (session_summary, goal, files_touched joined) and stats.total_tokens
SessionAnswers ==
  { [session_summary |-> "", goal |-> "ship the cache", files_touched |-> "",
     total_tokens |-> 28400],
    [session_summary |-> "Building cache", goal |-> "ship the cache",
     files_touched |-> "app/page.tsx", total_tokens |-> Undefined] }

FetchFailures == {"throw", "detail_not_ok", "anchor_not_ok", "malformed"}
PostAnswers == {"200", "500", "504", "throw"}

ResOk_AnyAnswer(answer) == answer \in PostAnswers

\* res.ok of the push-to-weave answer
ResOk(answer) == answer = "200"

\* summaryParts: TASK (when there is a session summary), GOAL, FILES (when
\* files were touched), EVENTS with the first three events
SummaryParts(d, events) ==
  (IF d.session_summary # "" THEN << <<"TASK", d.session_summary, "">> >> ELSE << >>)
  \o << <<"GOAL", d.goal, "">> >>
  \o (IF d.files_touched # "" THEN << <<"FILES", d.files_touched, "">> >> ELSE << >>)
  \o [k \in 1..Min(3, Len(events)) |-> <<"EVENTS", events[k].type, events[k].details>>]

\* newAnchor
NewAnchor(id, now, sid, d, events) ==
  [id |-> id, createdAt |-> now, sessionId |-> sid,
   tokenEstimate |-> d.total_tokens, status |-> "success",
   summary |-> SummaryParts(d, events), resumePrompt |-> "", isGold |-> FALSE]

\* the event log entry of a push
PushLogEntry(id, now, events) ==
  [id |-> id, timestamp |-> now,
   message |-> <<"WEAVE_PUSH", events[1].type, events[1].details>>]

\* JSON.stringify of one anchor: a property whose value is undefined is left out
StringifyAnchor(a) ==
  IF a.tokenEstimate = Undefined
  THEN [f \in (DOMAIN a) \ {"tokenEstimate"} |-> a[f]]
  ELSE a

\* JSON.parse of one anchor, as the page reads it: a property that is not
\* there reads as undefined
ParseAnchor(j) ==
  [id |-> j.id, createdAt |-> j.createdAt, sessionId |-> j.sessionId,
   tokenEstimate |-> IF "tokenEstimate" \in DOMAIN j THEN j.tokenEstimate
                     ELSE Undefined,
   status |-> j.status, summary |-> j.summary, resumePrompt |-> j.resumePrompt,
   isGold |-> j.isGold]

StringifyAnchors(list) == [k \in DOMAIN list |-> StringifyAnchor(list[k])]
ParseAnchors(text) == [k \in DOMAIN text |-> ParseAnchor(text[k])]

\* the persist effects of anchors and eventLog
PersistAnchors(list) == lsAnchors' = Item("ok", StringifyAnchors(list))
PersistEvents(log) == lsEvents' = Item("ok", log)

\* pushContribution(sessionId, [event]) up to its first await; n numbers the
\* calls in flight
Pending(n, event, auto) ==
  [n |-> n, sid |-> event.sessionId, events |-> <<event>>, auto |-> auto]

\* the calls the events of list start, numbered from n
PendingAll(n, list, auto) ==
  {Pending(n + k - 1, list[k], auto) : k \in DOMAIN list}

\* ---- page lifecycle -------------------------------------------------------
\* The mount effect, the load-from-localStorage effect and the persist
\* effects of the first mounted render, live URL.  JSON.parse throws on a
\* corrupt item and the catch ends the load at that point; the persist
\* effects then save the state that was reached.
MountLive ==
  /\ phase = "unloaded" /\ url = "live"
  /\ LET anchorsParsed == lsAnchors.st # "corrupt"
         eventsParsed == anchorsParsed /\ lsEvents.st # "corrupt"
         pushedParsed == eventsParsed /\ lsPushed.st # "corrupt"
         tickerParsed == pushedParsed /\ lsTicker.st = "ok"
         ticker == IF tickerParsed
                   THEN SelectSeq(lsTicker.v, LAMBDA e : ~IsDemoId(e.sessionId))
                   ELSE << >>
     IN /\ anchors' = IF anchorsParsed /\ lsAnchors.st = "ok"
                      THEN ParseAnchors(lsAnchors.v) ELSE << >>
        /\ eventLog' = IF eventsParsed /\ lsEvents.st = "ok" THEN lsEvents.v ELSE << >>
        /\ pushedEventsRef' = IF pushedParsed /\ lsPushed.st = "ok" THEN lsPushed.v ELSE {}
        /\ pushedEventsLoaded' = pushedParsed
        /\ eventTicker' = ticker
        /\ PersistTicker(ticker)
  /\ PersistAnchors(anchors')
  /\ PersistEvents(eventLog')
  /\ phase' = "running"
  /\ checkPc' = "health"
  /\ UNCHANGED <<url, loads, clock, lsPushed, demoEventIndex, claudestormConnected,
                 claudestormSessions, pollActive, closureTicker, cycles,
                 sessionTimestampsRef, pushCalls, lastGot, pollHist,
                 fetching, posting, contributions, notification, nextId>>
  /\ UNCHANGED serverVars

\* The same effects under ?demo=true: mock sessions and the first three mock
\* events, no load, and the poll effect starts its first checkAllSessions.
MountDemo ==
  /\ phase = "unloaded" /\ url = "demo"
  /\ eventTicker' = SubSeq(MockEvents(clock), 1, DemoStart)
  /\ demoEventIndex' = DemoStart
  /\ claudestormConnected' = TRUE
  /\ claudestormSessions' = DemoSessions
  /\ pushedEventsLoaded' = TRUE
  /\ PersistTicker(eventTicker')
  /\ PersistAnchors(anchors)
  /\ PersistEvents(eventLog)
  /\ phase' = "running"
  /\ RunPollEffect(TRUE, DemoSessions, eventTicker')
  /\ UNCHANGED <<url, loads, clock, lsPushed, checkPc, sessionTimestampsRef,
                 pushedEventsRef, pushCalls, lastGot, pollHist, pushVars>>
  /\ UNCHANGED serverVars

\* The page is left or reloaded (browser reload, the Demo / Exit demo links,
\* window.location.reload() after Reset Cache): memory is lost, storage stays.
Reload(u) ==
  /\ phase = "running"
  /\ loads' = loads + 1
  /\ url' = u
  /\ phase' = "unloaded"
  /\ eventTicker' = << >>
  /\ demoEventIndex' = 0
  /\ claudestormConnected' = FALSE
  /\ claudestormSessions' = << >>
  /\ checkPc' = "idle"
  /\ pollActive' = FALSE
  /\ closureTicker' = << >>
  /\ cycles' = << >>
  /\ sessionTimestampsRef' = NoTimestamps
  /\ pushedEventsRef' = {}
  /\ pushedEventsLoaded' = FALSE
  /\ incorporated' = NoTimestamps
  /\ fetching' = {}
  /\ posting' = {}
  /\ contributions' = << >>
  /\ anchors' = << >>
  /\ eventLog' = << >>
  /\ notification' = "none"
  /\ UNCHANGED <<clock, lsTicker, lsPushed, lsAnchors, pushCalls, lastGot, requestSince,
                 lsEvents, nextId>>
  /\ UNCHANGED serverVars

\* A saved entry is unreadable at the next startup (k names the entry).
StorageCorrupted(k) ==
  /\ phase = "unloaded"
  /\ CASE k = "anchors" -> /\ lsAnchors.st = "ok"
                           /\ lsAnchors' = Item("corrupt", << >>)
                           /\ UNCHANGED <<lsEvents, lsPushed, lsTicker>>
       [] k = "events"  -> /\ lsEvents.st = "ok"
                           /\ lsEvents' = Item("corrupt", << >>)
                           /\ UNCHANGED <<lsAnchors, lsPushed, lsTicker>>
       [] k = "pushed"  -> /\ lsPushed.st = "ok"
                           /\ lsPushed' = Item("corrupt", {})
                           /\ UNCHANGED <<lsAnchors, lsEvents, lsTicker>>
       [] k = "ticker"  -> /\ lsTicker.st = "ok"
                           /\ lsTicker' = Item("corrupt", << >>)
                           /\ UNCHANGED <<lsAnchors, lsEvents, lsPushed>>
  /\ UNCHANGED <<phase, url, loads, clock, eventTicker, demoEventIndex,
                 claudestormConnected, claudestormSessions, checkPc, pollActive,
                 closureTicker, cycles, sessionTimestampsRef, pushedEventsRef,
                 pushedEventsLoaded, pushCalls, lastGot, pollHist, pushVars>>
  /\ UNCHANGED serverVars

\* ---- checkClaudestorm -----------------------------------------------------
StartCheck ==
  /\ phase = "running" /\ url = "live" /\ checkPc = "idle"
  /\ checkPc' = "health"
  /\ UNCHANGED <<phase, url, loads, clock, lsTicker, lsPushed, lsAnchors, eventTicker,
                 demoEventIndex, claudestormConnected, claudestormSessions,
                 pollActive, closureTicker, cycles, sessionTimestampsRef,
                 pushedEventsRef, pushedEventsLoaded, pushCalls, lastGot, pollHist,
                 lsEvents, pushVars>>
  /\ UNCHANGED serverVars

\* health answers ok: setClaudestormConnected(true)
HealthOk ==
  /\ phase = "running" /\ checkPc = "health"
  /\ checkPc' = "sessions"
  /\ claudestormConnected' = TRUE
  /\ IF claudestormConnected
     THEN UNCHANGED <<pollActive, closureTicker, cycles>>
     ELSE RunPollEffect(TRUE, claudestormSessions, eventTicker)
  /\ UNCHANGED <<phase, url, loads, clock, lsTicker, lsPushed, lsAnchors, eventTicker,
                 demoEventIndex, claudestormSessions, sessionTimestampsRef,
                 pushedEventsRef, pushedEventsLoaded, pushCalls, lastGot, pollHist,
                 lsEvents, pushVars>>
  /\ UNCHANGED serverVars

\* health answers non-ok, throws or times out; or the sessions request throws
Disconnect ==
  /\ claudestormConnected' = FALSE
  /\ checkPc' = "idle"
  /\ pollActive' = FALSE
  /\ UNCHANGED <<phase, url, loads, clock, lsTicker, lsPushed, lsAnchors, eventTicker,
                 demoEventIndex, claudestormSessions, closureTicker, cycles,
                 sessionTimestampsRef, pushedEventsRef, pushedEventsLoaded,
                 pushCalls, lastGot, pollHist,
                 lsEvents, pushVars>>

HealthFail ==
  /\ phase = "running" /\ checkPc = "health"
  /\ Disconnect
  /\ UNCHANGED serverVars

SessionsThrow ==
  /\ phase = "running" /\ checkPc = "sessions"
  /\ Disconnect
  /\ UNCHANGED serverVars

\* sessions answers ok: setClaudestormSessions(data.sessions || [])
SessionsOk(list) ==
  /\ phase = "running" /\ checkPc = "sessions"
  /\ checkPc' = "idle"
  /\ claudestormSessions' = list
  /\ RunPollEffect(claudestormConnected, list, eventTicker)
  /\ UNCHANGED <<phase, url, loads, clock, lsTicker, lsPushed, lsAnchors, eventTicker,
                 demoEventIndex, claudestormConnected, sessionTimestampsRef,
                 pushedEventsRef, pushedEventsLoaded, pushCalls, lastGot, pollHist,
                 lsEvents, pushVars>>
  /\ UNCHANGED serverVars

\* sessions answers non-ok: nothing is set
SessionsNotOk ==
  /\ phase = "running" /\ checkPc = "sessions"
  /\ checkPc' = "idle"
  /\ UNCHANGED <<phase, url, loads, clock, lsTicker, lsPushed, lsAnchors, eventTicker,
                 demoEventIndex, claudestormConnected, claudestormSessions,
                 pollActive, closureTicker, cycles, sessionTimestampsRef,
                 pushedEventsRef, pushedEventsLoaded, pushCalls, lastGot, pollHist,
                 lsEvents, pushVars>>
  /\ UNCHANGED serverVars

\* ---- checkAllSessions -----------------------------------------------------
\* setInterval(checkAllSessions, 15000) fires: the call runs in the closure
\* of the last effect run, so it sees the eventTicker captured then.
IntervalTickWithin(inFlight) ==
  /\ phase = "running" /\ pollActive
  /\ Len(cycles) < inFlight
  /\ cycles' = Append(cycles, NewCycle(claudestormSessions, closureTicker))
  /\ UNCHANGED <<phase, url, loads, clock, lsTicker, lsPushed, lsAnchors, eventTicker,
                 demoEventIndex, claudestormConnected, claudestormSessions, checkPc,
                 pollActive, closureTicker, sessionTimestampsRef, pushedEventsRef,
                 pushedEventsLoaded, pushCalls, lastGot, pollHist,
                 lsEvents, pushVars>>
  /\ UNCHANGED serverVars

IntervalTick == IntervalTickWithin(MaxInFlight)

\* if (!res.ok) continue;  or  catch { /* skip this session */ }
SkipPath(kind) == IF kind = "not_ok" THEN "continue" ELSE "catch"

\* a loop that a failed request ends
SkipSession_Abort(c, sid, kind) ==
  [c EXCEPT !.idx = Len(c.snap) + 1,
            !.got = Append(c.got, [sid |-> sid, res |-> SkipPath(kind),
                                   events |-> << >>])]

\* the loop body after a failed request
SkipSession(c, sid, kind) ==
  [c EXCEPT !.idx = c.idx + 1,
            !.got = Append(c.got, [sid |-> sid, res |-> SkipPath(kind),
                                   events |-> << >>])]

\* the loop body after an ok response carrying data.events
TakeSession(c, sid, events) ==
  [c EXCEPT !.idx = c.idx + 1,
            !.newEvents = IF Len(events) > 0
                          THEN c.newEvents \o EventsWithSession(events, sid)
                          ELSE c.newEvents,
            !.got = Append(c.got, [sid |-> sid, res |-> "ok",
                                   events |-> EventsWithSession(events, sid)])]

\* sessionTimestampsRef.current[session.session_id] = data.events[0].timestamp
RecordTimestamp(ref, sid, events) ==
  IF Len(events) > 0 THEN [ref EXCEPT ![sid] = events[1].timestamp] ELSE ref

\* the newest timestamp among ts and those of events
Newest(ts, events) ==
  LET all == {ts} \cup {events[k].timestamp : k \in DOMAIN events}
  IN CHOOSE m \in all : \A x \in all : x <= m

\* One iteration of the per-session loop whose request is answered ok; w is
\* what the detector finds in the session's window when the route runs, and
\* now the time the route reads.
Fetch(i, w, now) ==
  /\ phase = "running"
  /\ i \in DOMAIN cycles
  /\ cycles[i].idx <= Len(cycles[i].snap)
  /\ LET c == cycles[i]
         sid == c.snap[c.idx]
         lastTs == sessionTimestampsRef[sid]
         events == RouteGET(w, now, lastTs)
     IN /\ clock' = now
        /\ requestSince' = lastTs
        /\ cycles' = [cycles EXCEPT ![i] = TakeSession(c, sid, events)]
        /\ sessionTimestampsRef' = RecordTimestamp(sessionTimestampsRef, sid, events)
        /\ incorporated' = [incorporated EXCEPT ![sid] = Newest(@, events)]
  /\ UNCHANGED <<phase, url, loads, lsTicker, lsPushed, lsAnchors, eventTicker,
                 demoEventIndex, claudestormConnected, claudestormSessions, checkPc,
                 pollActive, closureTicker, pushedEventsRef, pushedEventsLoaded,
                 pushCalls, lastGot, lsEvents, pushVars>>
  /\ UNCHANGED serverVars

\* the route runs at a later time than every earlier request
FetchOk(i, w) == Fetch(i, w, clock + 1)

\* the route runs within the same millisecond as the request before it
FetchSameMs(i, w) == Fetch(i, w, clock)

\* One iteration whose request throws, times out, answers non-ok or answers
\* a body that is not a SuccessEventsResponse.
FetchFail(i, kind) ==
  /\ phase = "running"
  /\ i \in DOMAIN cycles
  /\ cycles[i].idx <= Len(cycles[i].snap)
  /\ clock' = clock + 1
  /\ LET c == cycles[i]
     IN /\ cycles' = [cycles EXCEPT ![i] = SkipSession(c, c.snap[c.idx], kind)]
        /\ requestSince' = sessionTimestampsRef[c.snap[c.idx]]
  /\ UNCHANGED <<phase, url, loads, lsTicker, lsPushed, lsAnchors, eventTicker,
                 demoEventIndex, claudestormConnected, claudestormSessions, checkPc,
                 pollActive, closureTicker, sessionTimestampsRef, pushedEventsRef,
                 pushedEventsLoaded, pushCalls, lastGot, incorporated,
                 lsEvents, pushVars>>
  /\ UNCHANGED serverVars

RemoveAt(s, i) == SubSeq(s, 1, i - 1) \o SubSeq(s, i + 1, Len(s))

\* The code after the loop: dedup against the captured ticker, merge, and the
\* auto-push loop.
FinishCycle(i) ==
  /\ phase = "running"
  /\ i \in DOMAIN cycles
  /\ cycles[i].idx > Len(cycles[i].snap)
  /\ LET c == cycles[i]
         uniqueNew == UniqueNew(c.newEvents, c.seen)
         pushing == uniqueNew # << >> /\ AutoPushAllowed(pushedEventsLoaded)
         r == IF pushing
              THEN AutoPushLoop(uniqueNew, pushedEventsRef, pushCalls,
                                pushedEventsLoaded, url = "demo")
              ELSE [pushed |-> pushedEventsRef, calls |-> pushCalls, started |-> << >>]
         sent == IF url = "demo" THEN << >> ELSE r.started
     IN /\ cycles' = RemoveAt(cycles, i)
        /\ fetching' = fetching \cup PendingAll(nextId, sent, TRUE)
        /\ nextId' = nextId + Len(sent)
        /\ IF uniqueNew # << >>
           THEN /\ eventTicker' = MergeTicker(uniqueNew, eventTicker)
                /\ PersistTicker(eventTicker')
           ELSE UNCHANGED <<eventTicker, lsTicker>>
        /\ pushedEventsRef' = r.pushed
        /\ lsPushed' = IF r.pushed # pushedEventsRef
                       THEN Item("ok", r.pushed) ELSE lsPushed
        /\ pushCalls' = r.calls
        /\ lastGot' = c.got
  /\ UNCHANGED <<phase, url, loads, clock, lsAnchors, demoEventIndex,
                 claudestormConnected, claudestormSessions, checkPc, pollActive,
                 closureTicker, sessionTimestampsRef, pushedEventsLoaded, pollHist,
                 lsEvents, posting, contributions, anchors, eventLog, notification>>
  /\ UNCHANGED serverVars

\* ---- user and timers ------------------------------------------------------
\* the demo animation timer: the next mock event, stamped now, is prepended
DemoAnimate ==
  /\ phase = "running" /\ url = "demo"
  /\ demoEventIndex < NumMock
  /\ clock' = clock + 1
  /\ LET nextEvent == MockEvents(clock)[demoEventIndex + 1]
         liveEvent == [nextEvent EXCEPT !.timestamp = clock']
     IN eventTicker' = <<liveEvent>> \o eventTicker
  /\ PersistTicker(eventTicker')
  /\ demoEventIndex' = demoEventIndex + 1
  /\ notification' = "event detected"
  /\ UNCHANGED <<phase, url, loads, lsPushed, lsAnchors, claudestormConnected,
                 claudestormSessions, checkPc, pollActive, closureTicker, cycles,
                 sessionTimestampsRef, pushedEventsRef, pushedEventsLoaded,
                 pushCalls, lastGot, pollHist, lsEvents, fetching, posting,
                 contributions, anchors, eventLog, nextId>>
  /\ UNCHANGED serverVars

ResetCache_ClearsForwarded ==
  /\ phase = "running" /\ url = "live"
  /\ sessionTimestampsRef' = NoTimestamps
  /\ eventTicker' = << >>
  /\ PersistTicker(<< >>)
  /\ incorporated' = NoTimestamps
  /\ notification' = "Cache cleared - refreshing..."
  /\ pushedEventsRef' = {}
  /\ lsPushed' = Item("absent", {})
  /\ UNCHANGED <<phase, url, loads, clock, lsAnchors, demoEventIndex,
                 claudestormConnected, claudestormSessions, checkPc, pollActive,
                 closureTicker, cycles, pushedEventsLoaded,
                 pushCalls, lastGot, requestSince, lsEvents, fetching, posting,
                 contributions, anchors, eventLog, nextId>>
  /\ UNCHANGED serverVars

\* Reset Cache onClick (the reload it schedules is Reload)
ResetCache ==
  /\ phase = "running" /\ url = "live"
  /\ sessionTimestampsRef' = NoTimestamps
  /\ eventTicker' = << >>
  /\ PersistTicker(<< >>)
  /\ incorporated' = NoTimestamps
  /\ notification' = "Cache cleared - refreshing..."
  /\ UNCHANGED <<phase, url, loads, clock, lsPushed, lsAnchors, demoEventIndex,
                 claudestormConnected, claudestormSessions, checkPc, pollActive,
                 closureTicker, cycles, pushedEventsRef, pushedEventsLoaded,
                 pushCalls, lastGot, requestSince, lsEvents, fetching, posting,
                 contributions, anchors, eventLog, nextId>>
  /\ UNCHANGED serverVars

\* the Push button of ticker row r
ManualPush(r) ==
  /\ phase = "running"
  /\ claudestormConnected /\ claudestormSessions # << >>
  /\ r \in 1..Min(PushButtonRows, Len(eventTicker))
  /\ pushCalls' = {c \in pushCalls : c.auto}
                    \cup {Call(eventTicker[r], FALSE, pushedEventsRef,
                                        pushedEventsLoaded, url = "demo", pushCalls)}
  /\ IF url = "demo"
     THEN UNCHANGED <<fetching, nextId>>
     ELSE /\ fetching' = fetching \cup {Pending(nextId, eventTicker[r], FALSE)}
          /\ nextId' = nextId + 1
  /\ UNCHANGED <<phase, url, loads, clock, lsTicker, lsPushed, lsAnchors, eventTicker,
                 demoEventIndex, claudestormConnected, claudestormSessions, checkPc,
                 pollActive, closureTicker, cycles, sessionTimestampsRef,
                 pushedEventsRef, pushedEventsLoaded, lastGot, pollHist,
                 lsEvents, posting, contributions, anchors, eventLog, notification>>
  /\ UNCHANGED serverVars

\* ---- pushContribution after its awaits -------------------------------------
\* the variables of the page that pushContribution never writes
pageVars == <<phase, url, loads, clock, lsTicker, lsPushed, eventTicker,
              demoEventIndex, claudestormConnected, claudestormSessions, checkPc,
              pollActive, closureTicker, cycles, sessionTimestampsRef,
              pushedEventsRef, pushedEventsLoaded, pushCalls, lastGot, pollHist>>

\* call n: a session fetch throws, answers non-ok, or a body does not parse
\* (return at !detailRes.ok || !anchorRes.ok, or the catch)
PushFetchFailed(n, kind) ==
  /\ phase = "running"
  /\ \E p \in fetching :
       /\ p.n = n
       /\ fetching' = fetching \ {p}
  /\ UNCHANGED <<pageVars, lsAnchors, lsEvents, posting, contributions, anchors,
                 eventLog, notification, nextId>>
  /\ UNCHANGED serverVars

\* call n: both session fetches answer ok with d; newAnchor is built and the
\* POST to /api/push-to-weave is sent
PushFetched(n, d) ==
  /\ phase = "running"
  /\ \E p \in fetching :
       /\ p.n = n
       /\ fetching' = fetching \ {p}
       /\ posting' = posting \cup
            {[n |-> p.n, sid |-> p.sid, events |-> p.events, auto |-> p.auto,
              newAnchor |-> NewAnchor(nextId, clock, p.sid, d, p.events)]}
  /\ nextId' = nextId + 1
  /\ UNCHANGED <<pageVars, lsAnchors, lsEvents, contributions, anchors, eventLog,
                 notification>>
  /\ UNCHANGED serverVars

AddContribution_NoSlice(newAnchor, prev) == <<newAnchor>> \o prev

\* [newAnchor, ...prev].slice(0, 20)
AddContribution(newAnchor, prev) ==
  SubSeq(<<newAnchor>> \o prev, 1, Min(ContributionsCap, Len(prev) + 1))

\* call n: the POST is answered (or throws); the state is written when res.ok
PushPosted(n, answer) ==
  /\ phase = "running"
  /\ \E p \in posting :
       /\ p.n = n
       /\ posting' = posting \ {p}
       /\ IF ResOk(answer)
          THEN /\ contributions' = AddContribution(p.newAnchor, contributions)
               /\ anchors' = <<p.newAnchor>> \o anchors
               /\ eventLog' = <<PushLogEntry(nextId, clock, p.events)>> \o eventLog
               /\ notification' = "Pushed to Weave"
               /\ nextId' = nextId + 1
               /\ PersistAnchors(anchors')
               /\ PersistEvents(eventLog')
          ELSE UNCHANGED <<contributions, anchors, eventLog, notification, nextId,
                           lsAnchors, lsEvents>>
  /\ UNCHANGED <<pageVars, fetching>>
  /\ UNCHANGED serverVars

\* setTimeout(() => setNotification(null), 2000)
ClearNotification ==
  /\ phase = "running"
  /\ notification # "none"
  /\ notification' = "none"
  /\ UNCHANGED <<pageVars, lsAnchors, lsEvents, fetching, posting, contributions,
                 anchors, eventLog, nextId>>
  /\ UNCHANGED serverVars

\* the undo button of contributions row r
undoContribution(r) ==
  /\ phase = "running"
  /\ r \in 1..Min(ContributionRows, Len(contributions))
  /\ contributions' = SelectSeq(contributions, LAMBDA c : c.id # contributions[r].id)
  /\ notification' = "Contribution removed"
  /\ UNCHANGED <<pageVars, lsAnchors, lsEvents, fetching, posting, anchors,
                 eventLog, nextId>>
  /\ UNCHANGED serverVars

\* the gold button of contributions row r (shown while the row is not gold)
markGold(r) ==
  /\ phase = "running"
  /\ r \in 1..Min(ContributionRows, Len(contributions))
  /\ ~contributions[r].isGold
  /\ LET id == contributions[r].id
     IN /\ contributions' = [k \in DOMAIN contributions |->
                              IF contributions[k].id = id
                              THEN [contributions[k] EXCEPT !.isGold = TRUE]
                              ELSE contributions[k]]
        /\ anchors' = [k \in DOMAIN anchors |->
                        IF anchors[k].id = id
                        THEN [anchors[k] EXCEPT !.isGold = TRUE]
                        ELSE anchors[k]]
  /\ PersistAnchors(anchors')
  /\ notification' = "Marked as gold pattern"
  /\ UNCHANGED <<pageVars, lsEvents, fetching, posting, eventLog, nextId>>
  /\ UNCHANGED serverVars

\* the manual calls of pushContribution that await an answer
ManualInFlight == Cardinality({p \in fetching \cup posting : ~p.auto})

Next ==
  \/ MountLive
  \/ MountDemo
  \/ loads < MaxLoads /\ \E u \in {"live", "demo"} : Reload(u)
  \/ \E k \in {"anchors", "events", "pushed", "ticker"} : StorageCorrupted(k)
  \/ StartCheck
  \/ HealthOk
  \/ HealthFail
  \/ \E list \in SessionLists : SessionsOk(list)
  \/ SessionsNotOk
  \/ SessionsThrow
  \/ IntervalTick
  \/ clock < MaxClock /\ \E i \in 1..MaxInFlight, w \in Windows : FetchOk(i, w)
  \/ clock < MaxClock /\ \E i \in 1..MaxInFlight, kind \in FailKinds : FetchFail(i, kind)
  \/ \E i \in 1..MaxInFlight : FinishCycle(i)
  \/ DemoAnimate
  \/ ResetCache
  \/ ManualInFlight < MaxManual /\ \E r \in 1..PushButtonRows : ManualPush(r)

Spec == Init /\ [][Next]_vars

\* ---- live mode with a session list longer than one cycle polls -------------
WideList == <<"s1", "s2", "s3", "s4", "s5", "s6">>

InitWide == Init /\ url = "live"

NextWide ==
  \/ MountLive
  \/ StartCheck
  \/ HealthOk
  \/ HealthFail
  \/ \E list \in {WideList} : SessionsOk(list)
  \/ SessionsNotOk
  \/ SessionsThrow
  \/ IntervalTick
  \/ clock < MaxClockWide /\ \E i \in 1..MaxInFlight, w \in Windows : FetchOk(i, w)
  \/ clock < MaxClockWide /\ \E i \in 1..MaxInFlight, kind \in FailKinds : FetchFail(i, kind)
  \/ \E i \in 1..MaxInFlight : FinishCycle(i)
  \/ ResetCache

SpecWide == InitWide /\ [][NextWide]_vars

\* ---- visits to demo mode, with windows that match every detector rule ------
SS == [type |-> "session_start", details |-> "magic start new task", confidence |-> 90]
IS == [type |-> "issue", details |-> "stuck on the build", confidence |-> 70]
DS == [type |-> "deploy_success", details |-> "https://app.vercel.app", confidence |-> 95]
BS == [type |-> "build_success", details |-> "Build succeeded", confidence |-> 80]

FullWindow == <<SS, CK, IS, GC, TP, DS, BS>>

NextDemo ==
  \/ MountLive
  \/ MountDemo
  \/ loads < MaxLoadsDemo /\ \E u \in {"live", "demo"} : Reload(u)
  \/ HealthOk
  \/ \E list \in {<<"s1">>} : SessionsOk(list)
  \/ IntervalTick
  \/ clock < MaxClockDemo /\ \E i \in 1..MaxInFlight : FetchOk(i, FullWindow)
  \/ clock < MaxClockDemo /\ \E i \in 1..MaxInFlight : FetchFail(i, "not_ok")
  \/ \E i \in 1..MaxInFlight : FinishCycle(i)
  \/ DemoAnimate

SpecDemo == Init /\ [][NextDemo]_vars


\* ---- live mode, with requests that the route may serve within one tick ----
NextSince ==
  \/ MountLive
  \/ HealthOk
  \/ SessionsOk(<<"s1", "s2">>)
  \/ IntervalTick
  \/ clock < MaxClockSince
       /\ \E i \in 1..MaxInFlight, w \in {<< >>, <<CK, GC>>} : FetchOk(i, w)
  \/ \E i \in 1..MaxInFlight : FetchSameMs(i, <<CK, GC>>)
  \/ clock < MaxClockSince /\ \E i \in 1..MaxInFlight : FetchFail(i, "timeout")
  \/ \E i \in 1..MaxInFlight : FinishCycle(i)
  \/ ResetCache

SpecSince == InitWide /\ [][NextSince]_vars

\* ---- two calls of checkAllSessions in flight -------------------------------
NextOverlap ==
  \/ MountLive
  \/ HealthOk
  \/ \E list \in {<<"s1">>, <<"s1", "s2">>} : SessionsOk(list)
  \/ IntervalTickWithin(MaxOverlap)
  \/ clock < MaxClockOverlap
       /\ \E i \in 1..MaxOverlap, w \in {<<GC>>, <<CK, GC>>} : FetchOk(i, w)
  \/ \E i \in 1..MaxOverlap : FinishCycle(i)

SpecOverlap == InitWide /\ [][NextOverlap]_vars

\* ---- live mode with Reset Cache and the reload it schedules ----------------
NextReset ==
  \/ MountLive
  \/ loads < MaxLoadsReset /\ Reload("live")
  \/ HealthOk
  \/ SessionsOk(<<"s1">>)
  \/ IntervalTick
  \/ clock < MaxClockReset
       /\ \E i \in 1..MaxInFlight, w \in {<<CK, GC>>, <<GC, TP>>} : FetchOk(i, w)
  \/ \E i \in 1..MaxInFlight : FinishCycle(i)
  \/ ResetCache

SpecReset == InitWide /\ [][NextReset]_vars

\* ---- the poller with the forwarder's answers ------------------------------
InFlight(set) == {p.n : p \in set}

NextPush ==
  \/ MountLive
  \/ MountDemo
  \/ loads < MaxLoadsPush /\ \E u \in {"live", "demo"} : Reload(u)
  \/ HealthOk
  \/ SessionsOk(<<"s1">>)
  \/ clock < MaxClockPush /\ \E i \in 1..MaxInFlight : FetchOk(i, <<GC, TP>>)
  \/ \E i \in 1..MaxInFlight : FinishCycle(i)
  \/ nextId < MaxIds /\ ManualInFlight < MaxManual /\ \E r \in 1..PushButtonRows : ManualPush(r)
  \/ \E n \in InFlight(fetching), kind \in FetchFailures : PushFetchFailed(n, kind)
  \/ \E n \in InFlight(fetching), d \in SessionAnswers : PushFetched(n, d)
  \/ \E n \in InFlight(posting), answer \in PostAnswers : PushPosted(n, answer)
  \/ ClearNotification
  \/ \E r \in 1..ContributionRows : undoContribution(r)
  \/ \E r \in 1..ContributionRows : markGold(r)
  \/ ResetCache

SpecPush == Init /\ [][NextPush]_vars

\* ---- one event pushed by hand until the contributions list is full --------
TheAnswer == [session_summary |-> "Building cache", goal |-> "ship the cache",
              files_touched |-> "app/page.tsx", total_tokens |-> 28400]

NextContrib ==
  \/ MountLive
  \/ HealthOk
  \/ SessionsOk(<<"s1">>)
  \/ clock < MaxClockContrib /\ \E i \in 1..MaxInFlight : FetchOk(i, <<TP>>)
  \/ \E i \in 1..MaxInFlight : FinishCycle(i)
  \/ nextId < MaxIdsContrib /\ fetching = {} /\ posting = {} /\ ManualPush(1)
  \/ \E n \in InFlight(fetching) : PushFetched(n, TheAnswer)
  \/ \E n \in InFlight(posting) : PushPosted(n, "200")
  \/ Len(contributions) = ContributionsCap
       /\ \E r \in 1..ContributionRows : undoContribution(r)

SpecContrib == InitWide /\ [][NextContrib]_vars

\* ==== the push-to-weave route ================================================
\* setTimeout(..., 15000) of the direct push and setTimeout(..., 30000) of the
\* bulk push
DirectTimeout == 15000
BulkTimeout == 30000

\* time advances in steps of TickMs
TickMs == 5000

\* code of the close event of a process that was ended by a signal (null)
NullCode == -1
ExitCodes == {0, 1, NullCode}

\* the timeout of a request: direct when the body carries an anchor
TimeoutOf(kind) == IF kind = "direct" THEN DirectTimeout ELSE BulkTimeout

Resolve_NotIdempotent(post, status) ==
  [post EXCEPT !.settled = TRUE, !.answers = Append(@, status)]

\* resolve(response) of the promise the handler returns: the first call
\* settles it and the response is sent, later calls do nothing
Resolve(post, status) ==
  IF post.settled THEN post
  ELSE [post EXCEPT !.settled = TRUE, !.answers = Append(@, status)]

\* the status of the close handler's response
CloseStatus(code) == IF code = 0 THEN 200 ELSE 500

\* POST /api/push-to-weave: the subprocess is spawned and the timer is set
Post(r, kind) ==
  /\ posts[r].kind = "none"
  /\ routeNow + BulkTimeout <= MaxRouteClock
  /\ posts' = [posts EXCEPT ![r] = [kind |-> kind, start |-> routeNow,
                                     proc |-> "running", timer |-> "armed",
                                     settled |-> FALSE, answers |-> << >>]]
  /\ UNCHANGED <<routeNow, detectVars>>

\* proc.on("close"): the subprocess has ended (by itself or after the kill)
Close(r, code) ==
  /\ posts[r].proc \in {"running", "killed"}
  /\ posts[r].proc = "killed" => code = NullCode
  /\ posts' = [posts EXCEPT ![r] =
                Resolve([@ EXCEPT !.proc = "closed"], CloseStatus(code))]
  /\ UNCHANGED <<routeNow, detectVars>>

\* the setTimeout callback: proc.kill() and resolve(504)
Timeout(r) ==
  /\ posts[r].timer = "armed"
  /\ routeNow - posts[r].start >= TimeoutOf(posts[r].kind)
  /\ posts' = [posts EXCEPT ![r] =
                Resolve([@ EXCEPT !.timer = "fired",
                                  !.proc = IF @ = "running" THEN "killed" ELSE @],
                        504)]
  /\ UNCHANGED <<routeNow, detectVars>>

\* time passes; a timer that is due runs before time passes
Tick ==
  /\ routeNow < MaxRouteClock
  /\ \A r \in 1..MaxPosts :
       posts[r].timer = "armed" => routeNow - posts[r].start < TimeoutOf(posts[r].kind)
  /\ routeNow' = routeNow + TickMs
  /\ UNCHANGED <<posts, detectVars>>

\* the variables of the page
clientVars == <<phase, url, loads, clock, lsTicker, lsPushed, lsAnchors, eventTicker,
                demoEventIndex, claudestormConnected, claudestormSessions, checkPc,
                pollActive, closureTicker, cycles, sessionTimestampsRef,
                pushedEventsRef, pushedEventsLoaded, pushCalls, lastGot, pollHist,
                lsEvents, pushVars>>

NextRoute ==
  \/ \E r \in 1..MaxPosts, kind \in {"direct", "bulk"} : Post(r, kind) /\ UNCHANGED clientVars
  \/ \E r \in 1..MaxPosts, code \in ExitCodes : Close(r, code) /\ UNCHANGED clientVars
  \/ \E r \in 1..MaxPosts : Timeout(r) /\ UNCHANGED clientVars
  \/ Tick /\ UNCHANGED clientVars

\* Node runs a timer callback that is due, and time passes
SpecRoute ==
  /\ Init /\ [][NextRoute]_vars
  /\ WF_vars(Tick /\ UNCHANGED clientVars)
  /\ \A r \in 1..MaxPosts : WF_vars(Timeout(r) /\ UNCHANGED clientVars)

\* ==== detectSuccessEvents ===================================================
\* A text is the sequence of its characters.
LowerCase ==
  <<"a", "b", "c", "d", "e", "f", "g", "h", "i", "j", "k", "l", "m", "n", "o",
  "p", "q", "r", "s", "t", "u", "v", "w", "x", "y", "z">>
UpperCase ==
  <<"A", "B", "C", "D", "E", "F", "G", "H", "I", "J", "K", "L", "M", "N", "O",
  "P", "Q", "R", "S", "T", "U", "V", "W", "X", "Y", "Z">>
Digits == {"0", "1", "2", "3", "4", "5", "6", "7", "8", "9"}
\* the character U+2713
CheckMark == "U+2713"
\* the character U+0060
BackTick == "U+0060"
Punctuation ==
  {" ", "\n", "\t", "[", "]", "#", ":", "/", ".", "-", "(", ")", "\"", BackTick, "'", CheckMark}
Letters == {LowerCase[k] : k \in DOMAIN LowerCase} \cup {UpperCase[k] : k \in DOMAIN UpperCase}

\* str.charCodeAt(i)
Characters ==
  LowerCase \o UpperCase \o
  <<"0", "1", "2", "3", "4", "5", "6", "7", "8", "9", "_", " ", "\n", "\t",
  "[", "]", "#", ":", "/", ".", "-", "(", ")", "\"", BackTick, "'", CheckMark>>
CharCodes ==
  <<97, 98, 99, 100, 101, 102, 103, 104, 105, 106, 107, 108, 109, 110, 111,
  112, 113, 114, 115, 116, 117, 118, 119, 120, 121, 122, 65, 66, 67, 68, 69,
  70, 71, 72, 73, 74, 75, 76, 77, 78, 79, 80, 81, 82, 83, 84, 85, 86, 87, 88,
  89, 90, 48, 49, 50, 51, 52, 53, 54, 55, 56, 57, 95, 32, 10, 9, 91, 93, 35,
  58, 47, 46, 45, 40, 41, 34, 96, 39, 10003>>
CharCode(c) == CharCodes[CHOOSE k \in DOMAIN Characters : Characters[k] = c]

\* the i flag of the patterns
Lower(c) ==
  IF \E k \in DOMAIN UpperCase : UpperCase[k] = c
  THEN LowerCase[CHOOSE k \in DOMAIN UpperCase : UpperCase[k] = c]
  ELSE c

LowerSeq(msg) == [k \in DOMAIN msg |-> Lower(msg[k])]

\* \w
WordChars == Letters \cup Digits \cup {"_"}
IsWordChar(c) == c \in WordChars

\* ^word, case-insensitive
StartsWith(msg, word) ==
  /\ Len(msg) >= Len(word)
  /\ SubSeq(LowerSeq(msg), 1, Len(word)) = word

\* \b between the characters k and k + 1 of msg
WordBoundary(msg, k) ==
  (k >= 1 /\ IsWordChar(msg[k])) # (k < Len(msg) /\ IsWordChar(msg[k + 1]))

\* \bword\b, case-insensitive
ContainsWord(msg, word) ==
  \E i \in 1..(Len(msg) - Len(word) + 1) :
    /\ SubSeq(LowerSeq(msg), i, i + Len(word) - 1) = word
    /\ WordBoundary(msg, i - 1)
    /\ WordBoundary(msg, i + Len(word) - 1)

HashMagic == <<"#", "m", "a", "g", "i", "c">>
Magic == <<"m", "a", "g", "i", "c">>
IssueWords ==
  { <<"b", "a", "d">>,
    <<"s", "t", "u", "c", "k">>,
    <<"b", "r", "o", "k", "e", "n">>,
    <<"f", "a", "i", "l", "e", "d">>,
    <<"u", "g", "h">>,
    <<"d", "a", "m", "n">>,
    <<"s", "h", "i", "t">>,
    <<"f", "u", "c", "k">>,
    <<"t", "h", "i", "s", " ", "i", "s", " ", "w", "r", "o", "n", "g">>,
    <<"n", "o", "t", " ", "w", "o", "r", "k", "i", "n", "g">> }

\* PATTERNS.session_start.input, PATTERNS.checkpoint.input, PATTERNS.issue.input
IsSessionStart(msg) == StartsWith(msg, HashMagic)
IsCheckpoint(msg) == ContainsWord(msg, Magic)
IsIssue(msg) == \E word \in IssueWords : StartsWith(msg, word)

\* ---- regular expressions ----------------------------------------------------
\* A pattern is a sequence of alternatives in the order the engine tries them;
\* an alternative is a sequence of items; an item is a character class with
\* its quantifier, or the end of the text.
Quantified(cs, min, many, lazy) ==
  [cs |-> cs, min |-> min, many |-> many, lazy |-> lazy, end |-> FALSE]
One(cs) == Quantified(cs, 1, FALSE, FALSE)
Opt(cs) == Quantified(cs, 0, FALSE, FALSE)
Plus(cs) == Quantified(cs, 1, TRUE, FALSE)
Star(cs) == Quantified(cs, 0, TRUE, FALSE)
AtLeast(cs, n) == Quantified(cs, n, TRUE, FALSE)
LazyPlus(cs) == Quantified(cs, 1, TRUE, TRUE)
EndOfText == [cs |-> {}, min |-> 0, many |-> FALSE, lazy |-> FALSE, end |-> TRUE]
Lit(word) == [k \in DOMAIN word |-> One({word[k]})]

\* \s, ., [1-9], [a-f0-9], [\w\/-], [\w-], [\w.-], [`'"], [^\s)"]
Space == {" ", "\n", "\t"}
AnyChar == (WordChars \cup Punctuation) \ {"\n"}
NonZero == Digits \ {"0"}
HexChars == Digits \cup {"a", "b", "c", "d", "e", "f"}
BranchChars == WordChars \cup {"/", "-"}
LabelChars == WordChars \cup {"-"}
HostChars == WordChars \cup {".", "-"}
Quotes == {BackTick, "'", "\""}
UrlChars == (WordChars \cup Punctuation) \ (Space \cup {")", "\""})

\* the number of characters of cs in a row from pos on
RunLen(text, pos, cs) ==
  Cardinality({n \in 1..(Len(text) - pos + 1) :
                 \A j \in 0..(n - 1) : text[pos + j] \in cs})

\* how many characters an item may take at pos
Counts(text, pos, it) ==
  LET run == RunLen(text, pos, it.cs)
  IN it.min..(IF it.many THEN run ELSE Min(1, run))

\* the positions after the matches of the items k.. of re that start at pos
RECURSIVE MatchEnds(_, _, _, _)
MatchEnds(text, pos, re, k) ==
  IF k > Len(re) THEN {pos}
  ELSE IF re[k].end
  THEN IF pos = Len(text) + 1 THEN MatchEnds(text, pos, re, k + 1) ELSE {}
  ELSE UNION {MatchEnds(text, pos + n, re, k + 1) : n \in Counts(text, pos, re[k])}

MatchesAt(text, pos, re) == MatchEnds(text, pos, re, 1) # {}

\* pattern.test(text)
Test(text, pattern) ==
  \E a \in DOMAIN pattern : \E pos \in 1..(Len(text) + 1) :
    MatchesAt(text, pos, pattern[a])

\* the match the backtracking engine finds first: a greedy item takes the most
\* characters that leave a match of the rest, a lazy item the fewest; the
\* result is the position after each item
RECURSIVE Parse(_, _, _, _)
Parse(text, pos, re, k) ==
  IF k > Len(re) THEN << >>
  ELSE IF re[k].end THEN <<pos>> \o Parse(text, pos, re, k + 1)
  ELSE LET ok == {n \in Counts(text, pos, re[k]) :
                    MatchEnds(text, pos + n, re, k + 1) # {}}
           n == IF re[k].lazy
                THEN CHOOSE m \in ok : \A o \in ok : m <= o
                ELSE CHOOSE m \in ok : \A o \in ok : m >= o
       IN <<pos + n>> \o Parse(text, pos + n, re, k + 1)

NoMatch == [start |-> 0, alt |-> 0, ends |-> << >>]

\* text.match(pattern): the leftmost match, of the first alternative that
\* matches there
Match(text, pattern) ==
  IF ~Test(text, pattern) THEN NoMatch
  ELSE LET starts == {pos \in 1..(Len(text) + 1) :
                        \E a \in DOMAIN pattern : MatchesAt(text, pos, pattern[a])}
           start == CHOOSE p \in starts : \A o \in starts : p <= o
           alts == {a \in DOMAIN pattern : MatchesAt(text, start, pattern[a])}
           alt == CHOOSE a \in alts : \A o \in alts : a <= o
       IN [start |-> start, alt |-> alt, ends |-> Parse(text, start, pattern[alt], 1)]

\* the characters of text that item k of the match took
Taken(text, m, k) ==
  SubSeq(text, IF k = 1 THEN m.start ELSE m.ends[k - 1], m.ends[k] - 1)

\* match[0]
Whole(text, m) == SubSeq(text, m.start, m.ends[Len(m.ends)] - 1)

\* /\[([\w\/-]+)\s+([a-f0-9]{7,})\]\s+(.+?)(?:\n|$)/i
CommitLine ==
  LET head == <<One({"["}), Plus(BranchChars), Plus(Space), AtLeast(HexChars, 7),
                One({"]"}), Plus(Space), LazyPlus(AnyChar)>>
  IN <<head \o <<One({"\n"})>>, head \o <<EndOfText>>>>

\* /commit\s+[`'"]?([a-f0-9]{7,})[`'"]?/i
CommitSummary ==
  <<Lit(<<"c", "o", "m", "m", "i", "t">>) \o
    <<Plus(Space), Opt(Quotes), AtLeast(HexChars, 7), Opt(Quotes)>>>>

\* PATTERNS.tests_passed.output; the optional ending of an alternative does
\* not change what test() answers
TestsOutput ==
  <<<<Plus(Digits), Plus(Space)>> \o Lit(<<"t", "e", "s", "t">>) \o
      <<Opt({"s"}), Plus(Space)>> \o Lit(<<"p", "a", "s", "s">>),
    <<Plus(Digits), Plus(Space)>> \o Lit(<<"s", "p", "e", "c">>) \o
      <<Opt({"s"}), Plus(Space)>> \o Lit(<<"p", "a", "s", "s">>),
    <<One({CheckMark}), Plus(Space), Plus(Digits), Plus(Space)>> \o
      Lit(<<"t", "e", "s", "t">>),
    <<One({CheckMark}), Plus(Space), Plus(Digits), Plus(Space)>> \o
      Lit(<<"p", "a", "s", "s", "i", "n", "g">>),
    Lit(<<"p", "a", "s", "s", "e", "d">>) \o
      <<Star(AnyChar), Plus(Digits)>>>>

\* PATTERNS.tests_passed.exclude
TestsExclude ==
  <<Lit(<<"f", "a", "i", "l", ":">>) \o <<Star(Space), One(NonZero)>>,
    Lit(<<"f", "a", "i", "l", "e", "d", ":">>) \o
      <<Star(Space), One(NonZero)>>,
    Lit(<<"f", "a", "i", "l", "i", "n", "g", ":">>) \o
      <<Star(Space), One(NonZero)>>,
    Lit(<<"e", "r", "r", "o", "r">>)>>

\* /(\d+)\s*(tests?\s+)?pass/i
TestsCount ==
  <<<<Plus(Digits), Star(Space)>> \o Lit(<<"t", "e", "s", "t">>) \o
      <<Opt({"s"}), Plus(Space)>> \o Lit(<<"p", "a", "s", "s">>),
    <<Plus(Digits), Star(Space)>> \o Lit(<<"p", "a", "s", "s">>)>>

\* PATTERNS.deploy_success.output
DeployOutput ==
  LET head == Lit(<<"h", "t", "t", "p", "s", ":", "/", "/">>) \o
                <<Plus(LabelChars)>>
  IN <<head \o Lit(<<".", "v", "e", "r", "c", "e", "l", ".", "a", "p", "p">>),
       head \o Lit(<<".", "n", "e", "t", "l", "i", "f", "y", ".", "a", "p", "p">>),
       head \o Lit(<<".", "r", "a", "i", "l", "w", "a", "y", ".", "a", "p", "p">>)>>

\* /https:\/\/[\w.-]+\.(vercel|netlify)\.app[^\s)"]*/
DeployUrl ==
  LET head == Lit(<<"h", "t", "t", "p", "s", ":", "/", "/">>) \o
                <<Plus(HostChars)>>
  IN <<head \o Lit(<<".", "v", "e", "r", "c", "e", "l", ".", "a", "p", "p">>)
         \o <<Star(UrlChars)>>,
       head \o Lit(<<".", "n", "e", "t", "l", "i", "f", "y", ".", "a", "p", "p">>)
         \o <<Star(UrlChars)>>>>

\* PATTERNS.build_success.output
BuildOutput ==
  <<Lit(<<"c", "o", "m", "p", "i", "l", "e", "d", " ", "s", "u", "c", "c", "e", "s", "s", "f", "u", "l", "l", "y", " ", "i", "n", " ">>)
      \o <<One(Digits)>>,
    Lit(<<"b", "u", "i", "l", "d", " ", "s", "u", "c", "c", "e", "e", "d", "e", "d">>),
    <<One({CheckMark})>> \o Lit(<<" ", "b", "u", "i", "l", "t", " ", "i", "n", " ">>)
      \o <<Plus(Digits)>>>>

\* PATTERNS.build_success.exclude
BuildExclude == <<Lit(<<"e", "r", "r", "o", "r">>), Lit(<<"f", "a", "i", "l">>)>>

\* ---- hashString --------------------------------------------------------------
\* A 32-bit integer is the pair of its 16-bit halves, <<high, low>>.
\* ((hash << 5) - hash) + char, then hash & hash
HashStep(hash, code) ==
  LET low == 31 * hash[2] + code
      high == 31 * hash[1] + (low \div 65536)
  IN <<high % 65536, low % 65536>>

\* Math.abs, of the signed reading of the 32 bits
Abs32(hash) ==
  IF hash[1] < 32768 THEN hash
  ELSE <<(65535 - hash[1] + (IF hash[2] = 0 THEN 1 ELSE 0)) % 65536,
         (65536 - hash[2]) % 65536>>

RECURSIVE HashLoop(_, _)
HashLoop(str, n) ==
  IF n = 0 THEN <<0, 0>> ELSE HashStep(HashLoop(str, n - 1), CharCode(str[n]))

\* the number that toString(36) writes
hashString(str) == Abs32(HashLoop(str, Len(str)))

\* ---- the events ---------------------------------------------------------------
\* .replace(/[#\n]/g, '')
RemoveMarks(msg) == SelectSeq(msg, LAMBDA c : c \notin {"#", "\n"})

\* .trim()
RECURSIVE TrimStart(_)
TrimStart(msg) ==
  IF msg # << >> /\ msg[1] \in Space THEN TrimStart(Tail(msg)) ELSE msg

RECURSIVE TrimEnd(_)
TrimEnd(msg) ==
  IF msg # << >> /\ msg[Len(msg)] \in Space
  THEN TrimEnd(SubSeq(msg, 1, Len(msg) - 1)) ELSE msg

\* msg.slice(0, 50).replace(/[#\n]/g, '').trim()
Details(msg) == TrimEnd(TrimStart(RemoveMarks(SubSeq(msg, 1, Min(DetailsLen, Len(msg))))))

FragmentEvent(type, msg, confidence) ==
  [type |-> type, details |-> Details(msg), confidence |-> confidence]

MsgId_NoIndex(msgIndex, msg) == <<0, hashString(msg)>>

\* `${msgIndex}-${hashString(msg)}`
MsgId(msgIndex, msg) == <<msgIndex, hashString(msg)>>

\* if (!seenHashes.has(msgId)) { seenHashes.add(msgId); events.push(...) }
PushOnce(st, type, msg, confidence) ==
  IF MsgId(st.msgIndex, msg) \in st.seenHashes THEN st
  ELSE [st EXCEPT !.seenHashes = @ \cup {MsgId(st.msgIndex, msg)},
                  !.events = Append(@, FragmentEvent(type, msg, confidence))]

Rules_Reversed(st, msg) ==
  IF IsIssue(msg) THEN PushOnce(st, "issue", msg, 70)
  ELSE IF IsCheckpoint(msg) THEN PushOnce(st, "checkpoint", msg, 80)
  ELSE IF IsSessionStart(msg) THEN PushOnce(st, "session_start", msg, 90)
  ELSE st

\* the if / else if / else if of the loop over recentUserMessages
Rules(st, msg) ==
  IF IsSessionStart(msg) THEN PushOnce(st, "session_start", msg, 90)
  ELSE IF IsCheckpoint(msg) THEN PushOnce(st, "checkpoint", msg, 80)
  ELSE IF IsIssue(msg) THEN PushOnce(st, "issue", msg, 70)
  ELSE st

\* the body of the loop, with msgIndex++
DetectFragment(st, msg) == [Rules(st, msg) EXCEPT !.msgIndex = @ + 1]

\* the loop, over the first n messages
RECURSIVE DetectLoop(_, _)
DetectLoop(messages, n) ==
  IF n = 0 THEN [events |-> << >>, seenHashes |-> {}, msgIndex |-> 0]
  ELSE DetectFragment(DetectLoop(messages, n - 1), messages[n])

\* [...].join("\n")
RECURSIVE Join(_)
Join(texts) ==
  IF texts = << >> THEN << >>
  ELSE IF Len(texts) = 1 THEN texts[1]
  ELSE texts[1] \o <<"\n">> \o Join(Tail(texts))

\* [...recentAssistantMessages, ...toolResults].join("\n")
CombinedOutput(assistant, tool) == Join(assistant \o tool)

\* commitMatch, and the event pushed for it
GitCommit(text) ==
  LET line == Match(LowerSeq(text), CommitLine)
      summary == Match(LowerSeq(text), CommitSummary)
      hash == IF line # NoMatch THEN Taken(text, line, 4) ELSE Taken(text, summary, 9)
      msg == IF line # NoMatch THEN Taken(text, line, 7) ELSE <<"c", "o", "m", "m", "i", "t", "t", "e", "d">>
  IN IF line = NoMatch /\ summary = NoMatch THEN << >>
     ELSE <<[type |-> "git_commit",
             details |-> <<"[">> \o hash \o <<"]", " ">>
                           \o SubSeq(msg, 1, Min(CommitMsgLen, Len(msg))),
             confidence |-> 90]>>

TestsPassed_NoExclude(text) == Test(LowerSeq(text), TestsOutput)

\* output.test(combinedOutput) && !exclude.test(combinedOutput)
TestsPassed(text) ==
  Test(LowerSeq(text), TestsOutput) /\ ~Test(LowerSeq(text), TestsExclude)

TestsEvent(text) ==
  LET match == Match(LowerSeq(text), TestsCount)
  IN IF ~TestsPassed(text) THEN << >>
     ELSE <<[type |-> "tests_passed",
             details |-> IF match # NoMatch
                         THEN Taken(text, match, 1) \o <<" ", "t", "e", "s", "t", "s", " ", "p", "a", "s", "s", "e", "d">>
                         ELSE <<"T", "e", "s", "t", "s", " ", "p", "a", "s", "s", "e", "d">>,
             confidence |-> 85]>>

\* the deploy rule: the test, then urlMatch
DeployEvent(text) ==
  LET urlMatch == Match(text, DeployUrl)
  IN IF Test(LowerSeq(text), DeployOutput) /\ urlMatch # NoMatch
     THEN <<[type |-> "deploy_success", details |-> Whole(text, urlMatch),
             confidence |-> 95]>>
     ELSE << >>

BuildSucceeded(text) ==
  Test(LowerSeq(text), BuildOutput) /\ ~Test(LowerSeq(text), BuildExclude)

BuildEvent(text) ==
  IF BuildSucceeded(text)
  THEN <<[type |-> "build_success",
          details |-> <<"B", "u", "i", "l", "d", " ", "c", "o", "m", "p", "l", "e", "t", "e", "d", " ", "s", "u", "c", "c", "e", "s", "s", "f", "u", "l", "l", "y">>,
          confidence |-> 80]>>
  ELSE << >>

WholeText_BuildFirst(text) ==
  BuildEvent(text) \o GitCommit(text) \o TestsEvent(text) \o DeployEvent(text)

\* the four rules over combinedOutput, in the order of the code
WholeText(text) ==
  GitCommit(text) \o TestsEvent(text) \o DeployEvent(text) \o BuildEvent(text)

detectSuccessEvents(recentUserMessages, recentAssistantMessages, results) ==
  DetectLoop(recentUserMessages, Len(recentUserMessages)).events
  \o WholeText(CombinedOutput(recentAssistantMessages, results))

\* ---- inputs -------------------------------------------------------------------
\* the pieces the fragments are made of
Pieces ==
  { HashMagic, Magic, <<"M", "A", "G", "I", "C">>, Magic \o <<"a", "l">>,
    <<"b", "a", "d", " ">> \o Magic, <<"b", "a", "d">>, <<"a", "l">>,
    <<" ">>, <<"#">> }

RECURSIVE Fragments(_)
Fragments(n) ==
  IF n = 0 THEN {<< >>}
  ELSE LET shorter == Fragments(n - 1)
       IN shorter \cup {f \o piece : f \in shorter, piece \in Pieces}

DetectInputs ==
  UNION {[1..n -> Fragments(MaxPieces)] : n \in 1..MaxFragments}

\* the route has read the session's recent user messages
InitDetect ==
  /\ InitPage /\ url = "live"
  /\ posts = [r \in 1..MaxPosts |-> NoPost]
  /\ routeNow = 0
  /\ userMessages \in DetectInputs
  /\ assistantMessages = << >>
  /\ toolResults = << >>
  /\ detected = << >>
  /\ detectPc = "input"

\* const events = detectSuccessEvents(...)
Detect ==
  /\ detectPc = "input"
  /\ detected' = detectSuccessEvents(userMessages, assistantMessages, toolResults)
  /\ detectPc' = "done"
  /\ UNCHANGED <<clientVars, posts, routeNow, userMessages, assistantMessages,
                 toolResults>>

NextDetect == Detect

SpecDetect == InitDetect /\ [][NextDetect]_vars

\* what the agent wrote
AgentTexts ==
  { <<"[", "m", "a", "i", "n", " ", "a", "1", "b", "2", "c", "3", "d", "]", " ", "f", "i", "x", " ", "b", "u", "g">>,
    <<"c", "o", "m", "m", "i", "t", " ", BackTick, "9", "f", "8", "e", "7", "d", "6", BackTick>>,
    <<"1", "4", " ", "t", "e", "s", "t", "s", " ", "p", "a", "s", "s", "e", "d">>,
    <<"e", "r", "r", "o", "r">>,
    <<"f", "a", "i", "l", "e", "d", ":", " ", "1">>,
    <<"f", "a", "i", "l", "e", "d", ":", " ", "0">>,
    <<"h", "t", "t", "p", "s", ":", "/", "/", "a", "p", "p", ".", "v", "e", "r", "c", "e", "l", ".", "a", "p", "p">>,
    <<"h", "t", "t", "p", "s", ":", "/", "/", "a", "p", "i", ".", "r", "a", "i", "l", "w", "a", "y", ".", "a", "p", "p">>,
    <<"h", "t", "t", "p", "s", ":", "/", "/", "A", "p", "p", ".", "N", "e", "t", "l", "i", "f", "y", ".", "A", "p", "p">>,
    <<"s", "e", "e", " ", "(", "h", "t", "t", "p", "s", ":", "/", "/", "m", "y", "-", "a", "p", "p", ".", "n", "e", "t", "l", "i", "f", "y", ".", "a", "p", "p", "/", "x", ")", " ", "n", "o", "w">>,
    <<"B", "u", "i", "l", "d", " ", "s", "u", "c", "c", "e", "e", "d", "e", "d">>,
    <<"P", "A", "S", "S", "E", "D", " ", "3">> }

\* what the tools answered
ToolTexts ==
  { <<CheckMark, " ", "2", " ", "p", "a", "s", "s", "i", "n", "g">>,
    <<"c", "o", "m", "p", "i", "l", "e", "d", " ", "s", "u", "c", "c", "e", "s", "s", "f", "u", "l", "l", "y", " ", "i", "n", " ", "3", "s">>,
    <<"[", "d", "e", "v", " ", "0", "a", "1", "b", "2", "c", "3", "]", " ", "w", "i", "p">> }

UserInputs ==
  {<< >>, <<HashMagic>>, <<<<"b", "a", "d">>, Magic>>}

AgentInputs == UNION {[1..n -> AgentTexts] : n \in 0..MaxTexts}

ToolInputs == {<< >>} \cup {<<t>> : t \in ToolTexts}

\* the route has read the session's recent messages and tool results
InitText ==
  /\ InitPage /\ url = "live"
  /\ posts = [r \in 1..MaxPosts |-> NoPost]
  /\ routeNow = 0
  /\ userMessages \in UserInputs
  /\ assistantMessages \in AgentInputs
  /\ toolResults \in ToolInputs
  /\ detected = << >>
  /\ detectPc = "input"

SpecText == InitText /\ [][NextDetect]_vars

\* ==== properties ===========================================================
Count(seq, e) == Cardinality({i \in DOMAIN seq : seq[i] = e})

SameContent(a, b) ==
  a.sessionId = b.sessionId /\ a.type = b.type /\ a.details = b.details

AutoCallsFor(key) == {c \in pushCalls : c.auto /\ c.key = key}

\* the step in which checkAllSessions call i runs the code after its loop
FinishStep(i) ==
  /\ i \in DOMAIN cycles
  /\ cycles[i].idx > Len(cycles[i].snap)
  /\ cycles' = RemoveAt(cycles, i)
  /\ phase' = "running"

\* C1: the ticker never holds two entries of a content-keyed kind (git_commit,
\* tests_passed, deploy_success, build_success) with the same sessionId, type
\* and details.
C1_NoContentKeyedDuplicate ==
  \A i, j \in DOMAIN eventTicker :
    (i < j /\ eventTicker[i].type \in {"git_commit", "tests_passed",
                                        "deploy_success", "build_success"})
      => ~SameContent(eventTicker[i], eventTicker[j])

\* C2 as stated: pushContribution is never called, by the poller or by the
\* Push button, for an event whose key is in the forwarded set.
C2_NoCallForForwardedKey == \A c \in pushCalls : ~c.had

\* C2 as amended: the poller never calls pushContribution for an event whose
\* key is in the forwarded set; the Push button is not gated.
C2_AutoSkipsForwardedKey == \A c \in pushCalls : c.auto => ~c.had

\* a forwarded event was merged into the ticker a second time and the poller
\* called pushContribution for its key once only
C2_Witness ==
  \E i, j \in DOMAIN eventTicker :
    /\ i < j
    /\ SameContent(eventTicker[i], eventTicker[j])
    /\ eventTicker[i].type \in {"git_commit", "checkpoint"}
    /\ <<eventTicker[i].sessionId, eventTicker[i].type, eventTicker[i].details>>
         \in pushedEventsRef
    /\ Cardinality(AutoCallsFor(<<eventTicker[i].sessionId, eventTicker[i].type,
                                  eventTicker[i].details>>)) = 1

\* C3: over poll cycles, Reset Cache clicks and page reloads, into and out of
\* demo mode, automatic forwarding submits a (sessionId, type, details) key
\* at most once (calls that return at the demoMode check are not counted).
C3_AutoForwardAtMostOnce == \A c \in pushCalls : (c.auto /\ c.sent) => c.nth <= 1

\* C4: pushContribution is not called by the poller while pushedEventsLoaded
\* is false.
C4_NoAutoPushBeforeLoaded == \A c \in pushCalls : c.auto => c.loaded

\* a poll cycle has merged an allow-listed event while pushedEventsLoaded is
\* false, and its key was never submitted
C4_Witness ==
  /\ phase = "running" /\ ~pushedEventsLoaded
  /\ \E i \in DOMAIN eventTicker :
       /\ eventTicker[i].type \in {"git_commit", "checkpoint"}
       /\ \A c \in pushCalls :
            c.key # <<eventTicker[i].sessionId, eventTicker[i].type,
                      eventTicker[i].details>>

\* C5: the poller calls pushContribution only for git_commit, session_start,
\* checkpoint and issue events.
C5_OnlyAllowListedAutoPushed ==
  \A c \in pushCalls :
    c.auto => c.type \in {"git_commit", "session_start", "checkpoint", "issue"}

\* one cycle merged a git_commit and a tests_passed event of a live session
\* with the forwarded set loaded: the commit was submitted, the test event not
C5_Witness ==
  /\ phase = "running" /\ url = "live" /\ pushedEventsLoaded
  /\ \E i, j \in DOMAIN eventTicker :
       /\ eventTicker[i].type = "tests_passed"
       /\ eventTicker[j].type = "git_commit"
       /\ eventTicker[j].sessionId = eventTicker[i].sessionId
       /\ eventTicker[j].timestamp = eventTicker[i].timestamp
       /\ \E c \in pushCalls :
            /\ c.auto
            /\ c.key = <<eventTicker[j].sessionId, "git_commit", eventTicker[j].details>>
       /\ \A c \in pushCalls :
            c.key # <<eventTicker[i].sessionId, "tests_passed", eventTicker[i].details>>

\* C6: in live mode every git_commit, session_start, checkpoint or issue event
\* that a poll cycle has merged into the ticker has been submitted by the
\* poller (now or when its key was first forwarded).
C6_EveryEligibleEventSubmitted ==
  (phase = "running" /\ url = "live") =>
    \A i \in DOMAIN eventTicker :
      eventTicker[i].type \in {"git_commit", "session_start", "checkpoint", "issue"}
        => AutoCallsFor(<<eventTicker[i].sessionId, eventTicker[i].type,
                          eventTicker[i].details>>) # {}

\* C7: when a cycle finishes, every session_start, checkpoint or issue event
\* it detected is a ticker entry, as often as it was detected, whatever the
\* ticker held before (the cycle detects fewer events than the ticker holds).
C7_MagicNeverSuppressed ==
  [][\A i \in DOMAIN cycles :
       (FinishStep(i) /\ Len(cycles[i].newEvents) <= TickerCap) =>
         \A k \in DOMAIN cycles[i].newEvents :
           cycles[i].newEvents[k].type \in {"session_start", "checkpoint", "issue"}
             => Count(eventTicker', cycles[i].newEvents[k])
                  >= Count(cycles[i].newEvents, cycles[i].newEvents[k])]_vars

\* two checkpoint events of one session with the same details and different
\* timestamps are both in the ticker
C7_Witness ==
  \E i, j \in DOMAIN eventTicker :
    /\ i < j
    /\ eventTicker[i].type = "checkpoint"
    /\ SameContent(eventTicker[i], eventTicker[j])
    /\ eventTicker[i].timestamp # eventTicker[j].timestamp

\* C8: the ticker holds at most 50 events.
C8_TickerWithinCap == Len(eventTicker) <= 50

\* C9: the timestamps of the ticker are non-increasing from first to last.
C9_TickerNewestFirst ==
  \A i \in DOMAIN eventTicker :
    i < Len(eventTicker) => eventTicker[i].timestamp >= eventTicker[i + 1].timestamp

\* C10: a cycle queries the first five sessions of the list, in list order,
\* whatever a request answers; and the events of every ok response are merged
\* into the ticker (but for a content-keyed event already in the ticker the
\* cycle was started with).
C10_FailedSessionSkipped ==
  [][\A i \in DOMAIN cycles :
       FinishStep(i) =>
         LET c == cycles[i]
         IN /\ Len(c.got) = IF Len(c.sessions) > 5 THEN 5 ELSE Len(c.sessions)
            /\ \A k \in DOMAIN c.got : c.got[k].sid = c.sessions[k]
            /\ \A k \in DOMAIN c.got :
                 c.got[k].res = "ok" =>
                   \A m \in DOMAIN c.got[k].events :
                     \/ \E t \in DOMAIN eventTicker' :
                          eventTicker'[t] = c.got[k].events[m]
                     \/ \E t \in DOMAIN c.seen :
                          /\ ~(c.got[k].events[m].type
                                 \in {"session_start", "checkpoint", "issue"})
                          /\ SameContent(c.seen[t], c.got[k].events[m])]_vars

\* the last cycle polled five of six sessions, one request failed, and the
\* events of a session polled after it are in the ticker
C10_Witness ==
  /\ Len(claudestormSessions) = 6
  /\ Len(lastGot) = 5
  /\ \E k, m \in DOMAIN lastGot :
       /\ k < m
       /\ lastGot[k].res # "ok"
       /\ lastGot[m].res = "ok"
       /\ lastGot[m].events # << >>
       /\ \A n \in DOMAIN lastGot[m].events :
            \E t \in DOMAIN eventTicker : eventTicker[t] = lastGot[m].events[n]


\* the step in which checkAllSessions call i gets the answer to the request
\* for its next session
FetchStep(i) ==
  /\ i \in DOMAIN cycles
  /\ Len(cycles') = Len(cycles)
  /\ cycles[i].idx <= Len(cycles[i].snap)
  /\ cycles'[i].idx = cycles[i].idx + 1

\* C11: a request for a session carries no since_timestamp when no event of
\* the session has been received (since the page was loaded or the cache
\* reset), and otherwise the newest timestamp received for the session; the
\* events of the answer are all stamped later than the since_timestamp sent.
C11_IncrementalFetch ==
  [][\A i \in DOMAIN cycles :
       FetchStep(i) =>
         LET sid == cycles[i].snap[cycles[i].idx]
             answer == cycles'[i].got[Len(cycles'[i].got)]
         IN /\ requestSince' = incorporated[sid]
            /\ \A k \in DOMAIN answer.events :
                 answer.events[k].timestamp > requestSince']_vars

\* a later poll of a session sent the timestamp of the events received
\* before and was answered with newer events
C11_Witness ==
  \E i \in DOMAIN cycles :
    /\ cycles[i].got # << >>
    /\ LET answer == cycles[i].got[Len(cycles[i].got)]
       IN /\ answer.res = "ok"
          /\ answer.events # << >>
          /\ requestSince > 0
          /\ requestSince < answer.events[1].timestamp
          /\ \E t \in DOMAIN eventTicker :
               /\ eventTicker[t].sessionId = answer.sid
               /\ eventTicker[t].timestamp = requestSince

\* ---- pushContribution ------------------------------------------------------
\* the answers of a failed store submission: the route's 500 (subprocess exit
\* code not 0) and 504 (timeout), and a fetch that throws
PostFailures == {"500", "504", "throw"}

\* call n of pushContribution ends at a failed session fetch or a failed POST
PushFailStep(n) ==
  \/ \E kind \in FetchFailures : PushFetchFailed(n, kind)
  \/ \E answer \in PostFailures : PushPosted(n, answer)

\* the ticker panel shows a Push button for event
CanPush(event) ==
  /\ phase = "running" /\ url = "live"
  /\ claudestormConnected /\ claudestormSessions # << >>
  /\ \E r \in 1..Min(PushButtonRows, Len(eventTicker)) : eventTicker[r] = event

PushOkStep(n) == PushPosted(n, "200")

\* C13: when the session fetches and the POST succeed, the new anchor (status
\* success, not gold) is the first element of the contributions list and of
\* the anchor log; the contributions list keeps its 20 most recent entries
\* and never holds more than 20; the anchor log keeps every entry.
C13_SuccessfulPushRecorded ==
  /\ [](Len(contributions) <= ContributionsCap)
  /\ [][\A p \in posting :
          PushOkStep(p.n) =>
            /\ p.newAnchor.status = "success" /\ ~p.newAnchor.isGold
            /\ contributions'[1] = p.newAnchor
            /\ anchors'[1] = p.newAnchor
            /\ Len(contributions') = Min(ContributionsCap, Len(contributions) + 1)
            /\ \A k \in 2..Len(contributions') : contributions'[k] = contributions[k - 1]
            /\ Len(anchors') = Len(anchors) + 1
            /\ \A k \in DOMAIN anchors : anchors'[k + 1] = anchors[k]]_vars

\* the contributions list is full and the anchor log is longer
C13_Witness ==
  /\ Len(contributions) = ContributionsCap
  /\ Len(anchors) > ContributionsCap
  /\ contributions[1] = anchors[1]
  /\ contributions[ContributionsCap] = anchors[ContributionsCap]

\* the user dismisses the contribution with this id
UndoStep(id) ==
  \E r \in 1..ContributionRows :
    /\ undoContribution(r)
    /\ contributions[r].id = id

\* C14: a contribution stays in the contributions list until the user
\* dismisses it with undo: every step that is not the undo of a contribution
\* leaves it in the list.
C14_ContributionStaysUntilUndo ==
  [][\A k \in DOMAIN contributions :
       \/ \E j \in DOMAIN contributions' : contributions'[j].id = contributions[k].id
       \/ UndoStep(contributions[k].id)]_vars

\* ---- the anchor log --------------------------------------------------------
\* the anchor log: the anchors of the running page, and between two page
\* loads the anchors saved under autofork_anchors
AnchorLog ==
  IF phase = "running" THEN anchors
  ELSE IF lsAnchors.st = "ok" THEN ParseAnchors(lsAnchors.v)
  ELSE << >>

\* b is a with no field changed except isGold, which may turn true
SameAnchor(a, b) ==
  /\ b.id = a.id /\ b.createdAt = a.createdAt /\ b.sessionId = a.sessionId
  /\ b.tokenEstimate = a.tokenEstimate /\ b.status = a.status
  /\ b.summary = a.summary /\ b.resumePrompt = a.resumePrompt
  /\ a.isGold => b.isGold

\* C15: an anchor of the anchor log stays in the log at every step (the page
\* has no action that deletes an anchor), with every field as it was, except
\* isGold, which changes only from false to true.
C15_AnchorsKept ==
  [][\A k \in DOMAIN AnchorLog :
       \E j \in DOMAIN AnchorLog' : SameAnchor(AnchorLog[k], AnchorLog'[j])]_vars

\* the anchor with a's id is in list with a's summary and resumePrompt
RoundTripped(a, list) ==
  \E j \in DOMAIN list :
    /\ list[j].id = a.id
    /\ list[j].summary = a.summary
    /\ list[j].resumePrompt = a.resumePrompt

\* C16: when the page is left, every anchor of the page is in the saved anchor
\* log with the summary and resumePrompt it has; when the page is loaded
\* again, every anchor of the saved log is in the anchors of the page with the
\* same summary and resumePrompt.
C16_AnchorRoundTrip ==
  [][/\ (phase = "running" /\ phase' = "unloaded") =>
         \A k \in DOMAIN anchors : RoundTripped(anchors[k], AnchorLog')
     /\ (phase = "unloaded" /\ phase' = "running") =>
         \A k \in DOMAIN AnchorLog : RoundTripped(AnchorLog[k], anchors')]_vars

\* ---- the load at startup ---------------------------------------------------
\* JSON.parse of a saved entry throws during the load
LoadFails ==
  \/ lsAnchors.st = "corrupt" \/ lsEvents.st = "corrupt"
  \/ lsPushed.st = "corrupt" \/ lsTicker.st = "corrupt"

\* pushedEventsLoaded.current after a load with no saved data
LoadedFlagOfCleanStart == TRUE

\* C17: a load in which reading a saved entry fails ends in the state of a
\* start with no saved data: anchors, event log, ticker and forwarded set are
\* empty and pushedEventsLoaded has the value it has after such a start.
C17_FailedLoadIsCleanStart ==
  [][(MountLive /\ LoadFails) =>
       /\ anchors' = << >> /\ eventLog' = << >> /\ eventTicker' = << >>
       /\ pushedEventsRef' = {}
       /\ pushedEventsLoaded' = LoadedFlagOfCleanStart]_vars

\* ---- a failed store submission -------------------------------------------
\* the route's non-ok answers
NonOkAnswers == {"500", "504"}

\* what the notification area shows after the other operations of the page
OtherNotifications ==
  {"none", "event detected", "Pushed to Weave", "Contribution removed",
   "Marked as gold pattern", "Cache cleared - refreshing..."}

\* C18: when push-to-weave answers non-ok, the step that receives the answer
\* shows a notification of the failure and starts no new submission.
C18_FailedSubmissionNotified ==
  [][\A p \in posting :
       (\E answer \in NonOkAnswers : PushPosted(p.n, answer)) =>
         /\ notification' \notin OtherNotifications
         /\ fetching' = fetching
         /\ posting' = posting \ {p}]_vars

\* ---- the push-to-weave route ------------------------------------------------
\* C19: every POST is answered exactly once, by whichever of the subprocess's
\* close and the timeout comes first: close with code 0 answers 200, close
\* with another code answers 500, and a timeout that finds the subprocess
\* still running (15 s after a direct POST, 30 s after a bulk POST) kills it
\* and answers 504; whichever comes second changes nothing.
C19_AnsweredOnceByFirst ==
  /\ [](\A r \in 1..MaxPosts : Len(posts[r].answers) <= 1)
  /\ \A r \in 1..MaxPosts :
       (posts[r].kind # "none") ~> (Len(posts[r].answers) = 1)
  /\ [][\A r \in 1..MaxPosts :
          /\ \A code \in ExitCodes :
               Close(r, code) =>
                 posts'[r].answers =
                   IF posts[r].timer = "fired" THEN posts[r].answers
                   ELSE IF code = 0 THEN <<200>> ELSE <<500>>
          /\ Timeout(r) =>
               IF posts[r].proc = "running"
               THEN /\ posts'[r].proc = "killed"
                    /\ posts'[r].answers = <<504>>
                    /\ posts[r].kind = "direct" => routeNow - posts[r].start = 15000
                    /\ posts[r].kind = "bulk" => routeNow - posts[r].start = 30000
               ELSE /\ posts'[r].proc = posts[r].proc
                    /\ posts'[r].answers = posts[r].answers]_vars

\* a direct POST was answered 504 and its killed subprocess has closed since;
\* a bulk POST was answered 200 and its timer has fired since
C19_Witness ==
  \E r, q \in 1..MaxPosts :
    /\ posts[r].kind = "direct" /\ posts[r].answers = <<504>>
    /\ posts[r].proc = "closed"
    /\ posts[q].kind = "bulk" /\ posts[q].answers = <<200>>
    /\ posts[q].timer = "fired"

\* ---- detectSuccessEvents ----------------------------------------------------
\* the fragments that match a per-fragment rule, in input order
MatchingFragments ==
  SelectSeq(userMessages,
            LAMBDA msg : IsSessionStart(msg) \/ IsCheckpoint(msg) \/ IsIssue(msg))

\* C20: detectSuccessEvents returns one per-fragment event for each fragment
\* that matches a rule and none for the others; the event of a fragment is
\* session_start when the fragment begins with #magic, else checkpoint when
\* it contains the word magic, else issue.
C20_FirstMatchPerFragment ==
  detectPc = "done" =>
    /\ Len(detected) = Len(MatchingFragments)
    /\ Len(detected) <= Len(userMessages)
    /\ \A k \in DOMAIN MatchingFragments :
         LET msg == MatchingFragments[k]
             type == detected[k].type
         IN /\ IsSessionStart(msg) => type = "session_start"
            /\ (~IsSessionStart(msg) /\ IsCheckpoint(msg)) => type = "checkpoint"
            /\ (~IsSessionStart(msg) /\ ~IsCheckpoint(msg)) => type = "issue"

\* a fragment that begins with #magic (and so contains the word magic) gave
\* one session_start event, and a fragment that begins with a negative word
\* and contains the word magic gave one checkpoint event
C20_Witness ==
  /\ detectPc = "done"
  /\ Len(userMessages) = 2 /\ Len(detected) = 2
  /\ IsSessionStart(userMessages[1]) /\ IsCheckpoint(userMessages[1])
  /\ IsCheckpoint(userMessages[2]) /\ IsIssue(userMessages[2])
  /\ detected[1].type = "session_start"
  /\ detected[2].type = "checkpoint"

\* ---- confidence ------------------------------------------------------------
\* PATTERNS.<type>.confidence, in hundredths
PatternConfidence ==
  [git_commit |-> 90, tests_passed |-> 85, deploy_success |-> 95,
   session_start |-> 90, checkpoint |-> 80, issue |-> 70, build_success |-> 80]

\* the events of the page and of the detector
EventsInSystem ==
  {eventTicker[k] : k \in DOMAIN eventTicker} \cup {detected[k] : k \in DOMAIN detected}

\* C23: every event, in the ticker (live and demo) and in the detector's
\* output, carries the confidence constant of its type, so two events of one
\* type have equal confidence, and every confidence is between 0.70 and 0.95.
C23_ConfidenceFixedByType ==
  \A e \in EventsInSystem :
    /\ e.type \in DOMAIN PatternConfidence
    /\ e.confidence = PatternConfidence[e.type]
    /\ 70 <= e.confidence /\ e.confidence <= 95

\* ---- the whole-text rules ---------------------------------------------------
FragmentTypes == {"session_start", "checkpoint", "issue"}

\* the place of a whole-text rule in the fixed order
RuleRank ==
  [git_commit |-> 1, tests_passed |-> 2, deploy_success |-> 3, build_success |-> 4]

combinedOutput == CombinedOutput(assistantMessages, toolResults)

\* the number of places of the text where the pattern matches
MatchCount(text, pattern) ==
  Cardinality({pos \in 1..(Len(text) + 1) :
                 \E a \in DOMAIN pattern : MatchesAt(text, pos, pattern[a])})

EventsOfType(type) == {k \in DOMAIN detected : detected[k].type = type}

\* C21: detectSuccessEvents returns the per-fragment events first, in the
\* order of the user fragments, and after them at most one event of each
\* whole-text rule, in the order git_commit, tests_passed, deploy_success,
\* build_success, however many matches of a rule the text holds.
C21_FragmentsThenRulesInOrder ==
  detectPc = "done" =>
    LET n == Len(MatchingFragments)
    IN /\ Len(detected) >= n
       /\ \A k \in 1..n :
            /\ detected[k].type \in FragmentTypes
            /\ detected[k].details = Details(MatchingFragments[k])
       /\ \A k \in (n + 1)..Len(detected) : detected[k].type \in DOMAIN RuleRank
       /\ \A j, k \in (n + 1)..Len(detected) :
            j < k => RuleRank[detected[j].type] < RuleRank[detected[k].type]

\* two user fragments gave two events, and a text with two commit lines and a
\* test count gave one git_commit event and then one tests_passed event
C21_Witness ==
  /\ detectPc = "done"
  /\ Len(MatchingFragments) = 2
  /\ MatchCount(LowerSeq(combinedOutput), CommitLine) >= 2
  /\ Len(detected) = 4
  /\ detected[1].type = "issue" /\ detected[2].type = "checkpoint"
  /\ detected[3].type = "git_commit" /\ detected[4].type = "tests_passed"

\* the text contains the word, in any case
Contains(text, word) ==
  \E i \in 1..(Len(text) - Len(word) + 1) :
    SubSeq(LowerSeq(text), i, i + Len(word) - 1) = word

\* "failed: <nonzero>"
FailedCount(text) ==
  \E i \in 1..(Len(text) - 7) :
    /\ SubSeq(LowerSeq(text), i, i + 6) = <<"f", "a", "i", "l", "e", "d", ":">>
    /\ \E j \in (i + 7)..Len(text) :
         /\ text[j] \in NonZero
         /\ \A m \in (i + 7)..(j - 1) : text[m] \in Space

\* C22: a text that matches the tests-passed pattern and contains "error" or
\* a "failed: <nonzero>" count gives no tests_passed event, and a text that
\* matches the build-success pattern and contains "error" or "fail" gives no
\* build_success event.
C22_ExcludeWins ==
  detectPc = "done" =>
    /\ (Contains(combinedOutput, <<"e", "r", "r", "o", "r">>) \/ FailedCount(combinedOutput))
         => EventsOfType("tests_passed") = {}
    /\ (Contains(combinedOutput, <<"e", "r", "r", "o", "r">>) \/ Contains(combinedOutput, <<"f", "a", "i", "l">>))
         => EventsOfType("build_success") = {}

\* a text with a test count and a failed count, and a text with a build
\* message and the word fail, gave neither event
C22_Witness ==
  /\ detectPc = "done"
  /\ Test(LowerSeq(combinedOutput), TestsOutput)
  /\ Test(LowerSeq(combinedOutput), BuildOutput)
  /\ FailedCount(combinedOutput)
  /\ ~Contains(combinedOutput, <<"e", "r", "r", "o", "r">>)
  /\ EventsOfType("tests_passed") = {}
  /\ EventsOfType("build_success") = {}

\* C24: a text that contains an https URL on vercel.app, netlify.app or
\* railway.app, in any case, gives exactly one deploy_success event, whose
\* details is a URL of the text on one of these hosts.
C24_DeployUrlGivesEvent ==
  (detectPc = "done" /\ Test(LowerSeq(combinedOutput), DeployOutput)) =>
    /\ Cardinality(EventsOfType("deploy_success")) = 1
    /\ \A k \in EventsOfType("deploy_success") :
         /\ MatchesAt(LowerSeq(detected[k].details), 1, DeployOutput[1])
              \/ MatchesAt(LowerSeq(detected[k].details), 1, DeployOutput[2])
              \/ MatchesAt(LowerSeq(detected[k].details), 1, DeployOutput[3])
         /\ \E i \in 1..(Len(combinedOutput) - Len(detected[k].details) + 1) :
              SubSeq(combinedOutput, i, i + Len(detected[k].details) - 1)
                = detected[k].details

\* the rule that takes the fragment
RuleType(msg) ==
  IF IsSessionStart(msg) THEN "session_start"
  ELSE IF IsCheckpoint(msg) THEN "checkpoint"
  ELSE IF IsIssue(msg) THEN "issue"
  ELSE "none"

\* C25: a fragment that matches a per-fragment rule gives one event for each
\* position of the user-fragment list it stands at: the events with its type
\* and details are as many as the positions whose fragment gives that type
\* and these details, and no event is held back by the seen-set.
C25_OneEventPerPosition ==
  detectPc = "done" =>
    \A i \in DOMAIN userMessages :
      RuleType(userMessages[i]) # "none" =>
        Cardinality({k \in DOMAIN detected :
                       /\ detected[k].type = RuleType(userMessages[i])
                       /\ detected[k].details = Details(userMessages[i])})
          = Cardinality({j \in DOMAIN userMessages :
                           /\ RuleType(userMessages[j]) = RuleType(userMessages[i])
                           /\ Details(userMessages[j]) = Details(userMessages[i])})

\* the same fragment stood at two positions and gave two events
C25_Witness ==
  /\ detectPc = "done"
  /\ Len(userMessages) = 2
  /\ userMessages[1] = userMessages[2]
  /\ RuleType(userMessages[1]) = "checkpoint"
  /\ Len(detected) = 2
  /\ detected[1] = detected[2]

\* ---- overlapping poll cycles -----------------------------------------------
ContentKeyed == {"git_commit", "tests_passed", "deploy_success", "build_success"}

\* C26: when a call of checkAllSessions that started while an earlier call
\* was awaiting its requests merges its events, the ticker is the one that
\* the two calls give one after the other: it holds no content-keyed event
\* twice and it holds every event the call received.
C26_OverlapAsSequential ==
  [][\A i \in DOMAIN cycles :
       (FinishStep(i) /\ cycles[i].overlaps) =>
         /\ \A j, k \in DOMAIN eventTicker' :
              (j < k /\ eventTicker'[j].type \in ContentKeyed)
                => ~SameContent(eventTicker'[j], eventTicker'[k])
         /\ \A n \in DOMAIN cycles[i].newEvents :
              \E k \in DOMAIN eventTicker' :
                getEventKey(eventTicker'[k]) = getEventKey(cycles[i].newEvents[n])]_vars

\* ---- demo mode and local storage -------------------------------------------
\* C27: no step of a page opened with ?demo=true changes what live mode saved
\* in local storage: the anchors, the event log, the ticker and the forwarded
\* set are after the step what they were before it.
C27_DemoLeavesStorage ==
  [][url = "demo" => UNCHANGED <<lsAnchors, lsEvents, lsTicker, lsPushed>>]_vars

\* ---- the forwarded set ------------------------------------------------------
\* the keys of the forwarded set, in memory and in local storage
ForwardedKeys == pushedEventsRef \cup lsPushed.v

\* an anchor records the successful submission of an event with this key
Submitted(key) ==
  \E k \in DOMAIN anchors :
    /\ anchors[k].sessionId = key[1]
    /\ \E j \in DOMAIN anchors[k].summary :
         anchors[k].summary[j] = <<"EVENTS", key[2], key[3]>>

\* a call of pushContribution for an event with this key has not ended
Submitting(key) == \E p \in fetching \cup posting : contentKey(p.events[1]) = key

\* C28: every key of the forwarded set, in memory and in local storage, is the
\* key of an event whose submission succeeded (or is still under way): no key
\* stays recorded for a push that failed, was skipped or was never sent.
\* Stated for the first visit of the live page, whose storage starts empty.
C28_ForwardedMeansSubmitted ==
  (url = "live" /\ loads = 0) =>
    \A key \in ForwardedKeys : Submitted(key) \/ Submitting(key)

\* ---- a fragment seen by many polls -----------------------------------------
\* C29: a user fragment that stays unchanged in a session's window (every
\* request of SpecDemo sees the same window, with one fragment of each
\* per-fragment rule) has at most one entry in the ticker, however many poll
\* cycles observe it.
C29_OneEntryPerFragment ==
  \A i, j \in DOMAIN eventTicker :
    (i < j /\ eventTicker[i].type \in FragmentTypes)
      => ~SameContent(eventTicker[i], eventTicker[j])

\* ---- Reset Cache -------------------------------------------------------------
\* C30: Reset Cache empties the ticker and the per-session last-timestamp map
\* and leaves the forwarded set as it is, in memory and in local storage; the
\* poller submits no key a second time, so an event that comes back into the
\* ticker after the reset and the reload is not forwarded again.
C30_ResetKeepsForwarded ==
  /\ [][ResetCache =>
          /\ eventTicker' = << >>
          /\ sessionTimestampsRef' = NoTimestamps
          /\ UNCHANGED <<pushedEventsRef, lsPushed>>]_vars
  /\ [](\A c \in pushCalls : (c.auto /\ c.sent) => c.nth <= 1)

\* after the reload: the forwarded event is in the ticker again, with the
\* stamp of a request made since the reload (the entry saved before the reset
\* is gone),
\* its key is in the loaded forwarded set, and the only automatic call for the
\* key is the one made before the reload
C30_Witness ==
  /\ url = "live" /\ loads = 1 /\ phase = "running"
  /\ fetching = {}
  /\ \E k \in DOMAIN eventTicker :
       /\ eventTicker[k].type = "git_commit"
       /\ contentKey(eventTicker[k]) \in pushedEventsRef \cap lsPushed.v
       /\ Cardinality(AutoCallsFor(contentKey(eventTicker[k]))) = 1
  /\ sessionTimestampsRef["s1"] = clock
  /\ \A k \in DOMAIN eventTicker : eventTicker[k].timestamp = clock

====
